---------------------------- MODULE Spec2Model ----------------------------
(***************************************************************************)
(* ETL normalization + validation/remediation rule engine of cbm.          *)
(*                                                                         *)
(* The shared store (WorkItem and RemediationTicket tables), the wall      *)
(* clock and the active validator configuration are the state; the         *)
(* operations of etl/validator.py, etl/sla.py and etl/normalizers/*.py     *)
(* are the actions.  Several specifications share the variables: each one  *)
(* exercises the operations one group of properties is about.              *)
(***************************************************************************)
EXTENDS Integers, Sequences, FiniteSets, TLC

VARIABLES
    now,        \* the wall clock read by timezone.now(), in seconds
    tickets,    \* RemediationTicket table: sequence of rows, pk = index
    workitems,  \* WorkItem table: function source_id -> row (source_id is unique)
                \* text is a sequence of characters
    config,     \* the config document of the active MappingVersion
                \* (in SpecMapping: the MappingVersion table itself; in
                \* SpecMapCheck: the document as JSON, or NoMapping; in
                \* SpecNotify: the NotificationChannel table; in
                \* SpecEtlRun and SpecWindow: the ETLJobRun table)
    proc,       \* per-job local state of the concurrent specifications
                \* (in SpecManual: the manual requests served; in
                \* SpecGithub: the PR table; in SpecWindow: the RawPayload
                \* table)
    hist        \* the last operation performed (history, not program state)

vars == <<now, tickets, workitems, config, proc, hist>>

(***************************************************************************)
(* Bounds                                                                  *)
(***************************************************************************)
MaxTickets == 3      \* rows in the ticket table (ticket specifications)
MaxClock   == 1      \* clock ticks taken in a behaviour
MaxVersions == 2     \* rows in the MappingVersion table
MaxHistories == 3    \* entries of a Jira changelog

(***************************************************************************)
(* Values                                                                  *)
(***************************************************************************)
None   == -1         \* a null timestamp / number
NoItem == <<>>       \* a null work_item foreign key

\* Jira issue keys (WorkItem.source_id)
PA1 == <<"P", "A", "-", "1">>
PA2 == <<"P", "A", "-", "2">>

Day      == 86400    \* seconds per day, validator._days_ago
TickStep == 43200    \* the clock advances half a day per tick

OPEN        == "open"
IN_PROGRESS == "in_progress"
DONE        == "done"

Boards == {1, 2}

\* Python dicts are sets of <<key, value>> pairs; {} is the empty dict.
EmptyMeta == {}

NoOp == [op |-> "none"]

(***************************************************************************)
(* Text (Python str) as sequences of characters                            *)
(***************************************************************************)
UpperChars == <<"A","B","C","D","E","F","G","H","I","J","K","L","M",
                "N","O","P","Q","R","S","T","U","V","W","X","Y","Z">>
LowerChars == <<"a","b","c","d","e","f","g","h","i","j","k","l","m",
                "n","o","p","q","r","s","t","u","v","w","x","y","z">>

\* the characters of the texts of this model
OtherChars == {" ", "-", "#", "/", "0", "1", "2", "3", "4", "5", "6", "7", "8", "9"}
Chars == {UpperChars[i] : i \in 1..26} \cup {LowerChars[i] : i \in 1..26} \cup OtherChars

LowerChar ==
    [c \in Chars |->
        IF \E i \in 1..26 : UpperChars[i] = c
        THEN LowerChars[CHOOSE i \in 1..26 : UpperChars[i] = c]
        ELSE c]

\* str.lower()
Lower(s) == [i \in 1..Len(s) |-> LowerChar[s[i]]]

\* sub in s
Contains(sub, s) ==
    \E i \in 1..(Len(s) - Len(sub) + 1) : SubSeq(s, i, i + Len(sub) - 1) = sub

\* str.strip() of the blanks used here
RECURSIVE LStrip(_)
LStrip(s) == IF s # <<>> /\ Head(s) = " " THEN LStrip(Tail(s)) ELSE s
RECURSIVE RStrip(_)
RStrip(s) == IF s # <<>> /\ s[Len(s)] = " " THEN RStrip(SubSeq(s, 1, Len(s) - 1)) ELSE s
Strip(s) == RStrip(LStrip(s))

\* str(n) of a non-negative integer
Digits == <<"0","1","2","3","4","5","6","7","8","9">>
RECURSIVE StrOfInt(_)
StrOfInt(n) == IF n < 10 THEN <<Digits[n + 1]>>
               ELSE StrOfInt(n \div 10) \o <<Digits[(n % 10) + 1]>>

\* min of a non-empty set of numbers
Min(S) == CHOOSE x \in S : \A y \in S : x <= y

(***************************************************************************)
(* Choices (metrics/models.py)                                             *)
(***************************************************************************)
JIRA    == "jira"
CLICKUP == "clickup"
AZURE   == "azure"
GITHUB  == "github"

STORY   == <<"s", "t", "o", "r", "y">>
BUG     == <<"b", "u", "g">>
TASK    == <<"t", "a", "s", "k">>
SUBTASK == <<"s", "u", "b", "t", "a", "s", "k">>
EPIC    == <<"e", "p", "i", "c">>

(***************************************************************************)
(* Extraction helpers (etl/normalizers/base.py)                            *)
(***************************************************************************)
\* to_dt on a time of the payloads of the normalizer specifications: those
\* are ISO-8601 texts, held as the instant they denote in seconds since the
\* epoch (to_dt, further down, reads the characters); a missing or empty
\* one (None, 0) gives None.
to_dt_text(val) ==
    IF val = None \/ val = 0 THEN None ELSE val

earliest(history_times) ==
    IF history_times # {} THEN Min(history_times) ELSE None

\* name None is read as ""
map_item_type(name) ==
    LET n == Lower(name)
    IN  IF Contains(<<"b", "u", "g">>, n) THEN BUG
        ELSE IF Contains(<<"s", "u", "b", "-", "t", "a", "s", "k">>, n) \/ Contains(<<"s", "u", "b", "t", "a", "s", "k">>, n) THEN SUBTASK
        ELSE IF Contains(<<"e", "p", "i", "c">>, n) THEN EPIC
        ELSE IF Contains(<<"t", "a", "s", "k">>, n) THEN TASK
        ELSE STORY

contains_blockedMut(status_name, labels) ==
    Contains(<<"b", "l", "o", "c", "k">>, Lower(status_name))
contains_blocked(status_name, labels) ==
    \/ Contains(<<"b", "l", "o", "c", "k">>, Lower(status_name))
    \/ \E i \in DOMAIN labels : Contains(<<"b", "l", "o", "c", "k">>, Lower(labels[i]))

(***************************************************************************)
(* Configuration: the config document of the active MappingVersion and     *)
(* settings.VALIDATOR_DEFAULTS.  A dict is a function on its keys.         *)
(***************************************************************************)
Has(d, k) == k \in DOMAIN d
GetNum(d, k)  == IF Has(d, k) THEN d[k] ELSE None      \* d.get(k), a number
GetText(d, k) == IF Has(d, k) THEN d[k] ELSE <<>>      \* d.get(k) or ""
GetList(d, k) == IF Has(d, k) THEN d[k] ELSE <<>>      \* d.get(k) or []

\* base.cfg(["jira", "points_field"], "customfield_10016")
JiraPointsField(cfg) ==
    IF Has(cfg, "jira") /\ Has(cfg.jira, "points_field")
    THEN cfg.jira.points_field ELSE "customfield_10016"
\* base.cfg(["jira", "status_map"], {}) or {}
JiraStatusMap(cfg) ==
    IF Has(cfg, "jira") /\ Has(cfg.jira, "status_map")
    THEN cfg.jira.status_map ELSE [k \in {} |-> <<>>]
\* (base.cfg(["clickup", "points_field_name"], "Story Points") or "").lower()
ClickUpPointsFieldName(cfg) ==
    Lower(IF Has(cfg, "clickup") /\ Has(cfg.clickup, "points_field_name")
          THEN cfg.clickup.points_field_name ELSE <<"S", "t", "o", "r", "y", " ", "P", "o", "i", "n", "t", "s">>)
\* base.cfg(["azure", "points_field"], "Microsoft.VSTS.Scheduling.StoryPoints")
AzurePointsField(cfg) ==
    IF Has(cfg, "azure") /\ Has(cfg.azure, "points_field")
    THEN cfg.azure.points_field ELSE "Microsoft.VSTS.Scheduling.StoryPoints"

(***************************************************************************)
(* WorkItem table (metrics/models.py) and the ORM calls on it              *)
(***************************************************************************)
\* the column defaults of a new row; last_synced is auto_now
BlankRow(source, t) ==
    [source |-> source, board |-> 0, title |-> <<>>, item_type |-> <<>>,
     story_points |-> None, status |-> <<"b", "a", "c", "k", "l", "o", "g">>,
     created_at |-> None, started_at |-> None, dev_started_at |-> None,
     dev_done_at |-> None, ready_for_qa_at |-> None, qa_started_at |-> None,
     qa_verified_at |-> None, signed_off_at |-> None, done_at |-> None,
     closed |-> FALSE, blocked_flag |-> FALSE, blocked_since |-> None,
     blocked_reason |-> <<>>, parent_story |-> NoItem, linked_prs |-> <<>>,
     last_synced |-> t]

\* WorkItem.objects.filter(source=, source_id=) is not empty
Exists(store, source, sid) == sid \in DOMAIN store /\ store[sid].source = source

\* the unique constraint on source_id alone rejects an INSERT of sid
Conflict(store, source, sid) == sid \in DOMAIN store /\ store[sid].source # source

\* setattr(obj, k, v) for the defaults, then save(): auto_now stamps last_synced
AssignMut(row, defaults, t) ==
    [f \in DOMAIN row |->
        IF f = "last_synced" THEN t
        ELSE IF f \in DOMAIN defaults /\ f # "closed" THEN defaults[f] ELSE row[f]]
Assign(row, defaults, t) ==
    [f \in DOMAIN row |->
        IF f = "last_synced" THEN t
        ELSE IF f \in DOMAIN defaults THEN defaults[f] ELSE row[f]]

\* update_or_create(source=, source_id=, defaults=): [store, err];
\* err is the IntegrityError of the INSERT
update_or_create(store, source, sid, defaults, t) ==
    IF Exists(store, source, sid)
    THEN [store |-> [store EXCEPT ![sid] = Assign(store[sid], defaults, t)],
          err |-> FALSE]
    ELSE IF Conflict(store, source, sid)
    THEN [store |-> store, err |-> TRUE]
    ELSE [store |-> (sid :> Assign(BlankRow(source, t), defaults, t)) @@ store,
          err |-> FALSE]

\* base.upsert_parent: get_or_create of a placeholder row
ParentTitle(parent_key) == <<"P", "a", "r", "e", "n", "t", " ">> \o parent_key
upsert_parent(store, board, source, parent_key, t) ==
    IF parent_key = <<>> THEN [store |-> store, err |-> FALSE, parent |-> NoItem]
    ELSE IF Exists(store, source, parent_key)
    THEN [store |-> store, err |-> FALSE, parent |-> parent_key]
    ELSE IF Conflict(store, source, parent_key)
    THEN [store |-> store, err |-> TRUE, parent |-> NoItem]
    ELSE [store |-> (parent_key :>
                        Assign(BlankRow(source, t),
                               [board |-> board, title |-> ParentTitle(parent_key),
                                item_type |-> STORY], t)) @@ store,
          err |-> FALSE, parent |-> parent_key]

(***************************************************************************)
(* JiraNormalizer (etl/normalizers/jira.py)                                *)
(***************************************************************************)
\* the time of the first matching entry in changelog order
status_timeMut(issue, targets) ==
    LET targets_lower == {Lower(targets[i]) : i \in DOMAIN targets}
        histories == issue.changelog
        hits == {h \in DOMAIN histories :
                   /\ to_dt_text(histories[h].created) # None
                   /\ \E i \in DOMAIN histories[h].items :
                         /\ histories[h].items[i].field = "status"
                         /\ Lower(histories[h].items[i].toString) \in targets_lower}
    IN  IF hits = {} THEN None ELSE histories[Min(hits)].created
\* _status_time: earliest changelog time at which status moved into a target
status_time(issue, targets) ==
    LET targets_lower == {Lower(targets[i]) : i \in DOMAIN targets}
        histories == GetList(issue, "changelog")
        hits == {to_dt_text(histories[h].created) : h \in
                   {h \in DOMAIN histories :
                      /\ to_dt_text(histories[h].created) # None
                      /\ \E i \in DOMAIN histories[h].items :
                            /\ histories[h].items[i].field = "status"
                            /\ Lower(histories[h].items[i].toString) \in targets_lower}}
    IN  earliest(hits)

\* float(sp) if sp is not None else None; a value float() rejects gives None
BadNumber == -2
to_points(sp) == IF sp = None \/ sp = BadNumber THEN None ELSE sp

JiraKey(issue) ==
    IF GetText(issue, "key") # <<>> THEN issue.key ELSE GetText(issue, "id")

\* jira.py 45-120: the defaults without blocked_since and parent_story
JiraDefaults(issue, board, cfg) ==
    LET fields == issue.fields
        sm == JiraStatusMap(cfg)
        step(name) == status_time(issue, GetList(sm, name))
        summary == GetText(fields, "summary")
        status_name == GetText(fields, "status")
        created_at == to_dt_text(GetNum(fields, "created"))
        resolutiondate == to_dt_text(GetNum(fields, "resolutiondate"))
        dev_started_at == step("dev_started")
        done_at == IF resolutiondate # None THEN resolutiondate ELSE step("done")
    IN  [board |-> board,
         title |-> IF summary # <<>> THEN summary ELSE <<"U", "n", "t", "i", "t", "l", "e", "d">>,
         item_type |-> map_item_type(GetText(fields, "issuetype")),
         story_points |-> to_points(GetNum(fields, JiraPointsField(cfg))),
         status |-> IF status_name # <<>> THEN status_name ELSE <<"b", "a", "c", "k", "l", "o", "g">>,
         created_at |-> created_at,
         started_at |-> IF dev_started_at # None THEN dev_started_at ELSE created_at,
         dev_started_at |-> dev_started_at,
         dev_done_at |-> step("dev_done"),
         ready_for_qa_at |-> step("ready_for_qa"),
         qa_started_at |-> step("qa_started"),
         qa_verified_at |-> step("qa_verified"),
         signed_off_at |-> step("signed_off"),
         done_at |-> done_at,
         blocked_flag |-> contains_blocked(status_name, GetList(fields, "labels")),
         closed |-> done_at # None]

\* jira.py 122-137: blocked_since from the row read under the lock
\* (found = a row exists, existing = that row)
BlockedSinceFresh(found, existing, blocked_flag, t) ==
    IF blocked_flag THEN t ELSE None
BlockedSinceMut(found, existing, blocked_flag, t) ==
    IF found
    THEN IF blocked_flag /\ ~existing.blocked_flag THEN t
         ELSE IF blocked_flag /\ existing.blocked_flag
              THEN IF existing.blocked_since # None THEN existing.blocked_since ELSE t
         ELSE existing.blocked_since
    ELSE IF blocked_flag THEN t ELSE None
BlockedSince(found, existing, blocked_flag, t) ==
    IF found
    THEN IF blocked_flag /\ ~existing.blocked_flag THEN t
         ELSE IF blocked_flag /\ existing.blocked_flag
              THEN IF existing.blocked_since # None THEN existing.blocked_since ELSE t
         ELSE None
    ELSE IF blocked_flag THEN t ELSE None

\* one iteration of JiraNormalizer.normalize: [store, counted, err]
JiraNormalizeOne(store, rp, board, cfg, t) ==
    IF rp.source # JIRA \/ rp.object_type # "issue"
    THEN [store |-> store, counted |-> FALSE, err |-> FALSE]
    ELSE LET issue == rp.payload
             key == JiraKey(issue)
         IN  IF key = <<>>
             THEN [store |-> store, counted |-> FALSE, err |-> FALSE]
             ELSE LET up == upsert_parent(store, board, JIRA,
                                          GetText(issue.fields, "parent"), t)
                      d0 == JiraDefaults(issue, board, cfg)
                      found == Exists(up.store, JIRA, key)
                      bs == BlockedSince(found, IF found THEN up.store[key] ELSE <<>>,
                                         d0.blocked_flag, t)
                      defaults == [f \in DOMAIN d0 \cup {"parent_story", "blocked_since"} |->
                                     IF f = "parent_story" THEN up.parent
                                     ELSE IF f = "blocked_since" THEN bs ELSE d0[f]]
                      w == update_or_create(up.store, JIRA, key, defaults, t)
                  IN  IF up.err THEN [store |-> store, counted |-> FALSE, err |-> TRUE]
                      ELSE [store |-> w.store, counted |-> ~w.err, err |-> w.err]

\* JiraNormalizer.normalize(raw_items): an exception ends the batch
RECURSIVE JiraNormalize(_, _, _, _, _)
JiraNormalize(store, raw_items, board, cfg, t) ==
    IF raw_items = <<>> THEN [store |-> store, count |-> 0, err |-> FALSE]
    ELSE LET one == JiraNormalizeOne(store, Head(raw_items), board, cfg, t)
         IN  IF one.err THEN [store |-> one.store, count |-> 0, err |-> TRUE]
             ELSE LET rest == JiraNormalize(one.store, Tail(raw_items), board, cfg, t)
                  IN  [store |-> rest.store,
                       count |-> rest.count + (IF one.counted THEN 1 ELSE 0),
                       err |-> rest.err]

(***************************************************************************)
(* ClickUpNormalizer (etl/normalizers/clickup.py)                          *)
(***************************************************************************)
\* _points_from_custom: the value of the first custom field with the name
RECURSIVE points_from_custom(_, _)
points_from_custom(cf_list, field_name) ==
    IF cf_list = <<>> THEN None
    ELSE IF Lower(Head(cf_list).name) = field_name
         THEN to_points(Head(cf_list).value)
         ELSE points_from_custom(Tail(cf_list), field_name)

ClickUpDefaults(t, board, cfg) ==
    LET name == GetText(t, "name")
        title == IF name # <<>> THEN name ELSE <<"U", "n", "t", "i", "t", "l", "e", "d">>
        status_name == GetText(t, "status")
        created_at == to_dt_text(GetNum(t, "date_created"))
        done_at == to_dt_text(GetNum(t, "date_closed"))
    IN  [board |-> board,
         title |-> title,
         item_type |-> IF Contains(<<"b", "u", "g">>, Lower(title)) THEN BUG ELSE STORY,
         story_points |-> points_from_custom(GetList(t, "custom_fields"),
                                             ClickUpPointsFieldName(cfg)),
         status |-> IF status_name # <<>> THEN status_name ELSE <<"b", "a", "c", "k", "l", "o", "g">>,
         created_at |-> created_at,
         started_at |-> created_at,
         done_at |-> done_at,
         closed |-> done_at # None]

ClickUpNormalizeOne(store, rp, board, cfg, t) ==
    IF rp.source # CLICKUP \/ rp.object_type # "task"
    THEN [store |-> store, counted |-> FALSE, err |-> FALSE]
    ELSE LET tid == GetText(rp.payload, "id")
         IN  IF tid = <<>>
             THEN [store |-> store, counted |-> FALSE, err |-> FALSE]
             ELSE LET w == update_or_create(store, CLICKUP, tid,
                                            ClickUpDefaults(rp.payload, board, cfg), t)
                  IN  [store |-> w.store, counted |-> ~w.err, err |-> w.err]

RECURSIVE ClickUpNormalize(_, _, _, _, _)
ClickUpNormalize(store, raw_items, board, cfg, t) ==
    IF raw_items = <<>> THEN [store |-> store, count |-> 0, err |-> FALSE]
    ELSE LET one == ClickUpNormalizeOne(store, Head(raw_items), board, cfg, t)
         IN  IF one.err THEN [store |-> one.store, count |-> 0, err |-> TRUE]
             ELSE LET rest == ClickUpNormalize(one.store, Tail(raw_items), board, cfg, t)
                  IN  [store |-> rest.store,
                       count |-> rest.count + (IF one.counted THEN 1 ELSE 0),
                       err |-> rest.err]

(***************************************************************************)
(* AzureNormalizer (etl/normalizers/azure.py)                              *)
(***************************************************************************)
AzureDefaults(wi, board, cfg) ==
    LET fields == wi.fields
        title == GetText(fields, "System.Title")
        status_name == GetText(fields, "System.State")
        created_at == to_dt_text(GetNum(fields, "System.CreatedDate"))
        vsts_closed == to_dt_text(GetNum(fields, "Microsoft.VSTS.Common.ClosedDate"))
        closed_at == IF vsts_closed # None THEN vsts_closed
                     ELSE to_dt_text(GetNum(fields, "System.ClosedDate"))
    IN  [board |-> board,
         title |-> IF title # <<>> THEN title ELSE <<"U", "n", "t", "i", "t", "l", "e", "d">>,
         item_type |-> map_item_type(GetText(fields, "System.WorkItemType")),
         story_points |-> to_points(GetNum(fields, AzurePointsField(cfg))),
         status |-> IF status_name # <<>> THEN status_name ELSE <<"b", "a", "c", "k", "l", "o", "g">>,
         created_at |-> created_at,
         started_at |-> created_at,
         done_at |-> closed_at,
         closed |-> closed_at # None]

\* the id of an Azure work item is a number: 0 and None are falsy
AzureNormalizeOne(store, rp, board, cfg, t) ==
    IF rp.source # AZURE \/ rp.object_type # "work_item"
    THEN [store |-> store, counted |-> FALSE, err |-> FALSE]
    ELSE LET wid == GetNum(rp.payload, "id")
         IN  IF wid = None \/ wid = 0
             THEN [store |-> store, counted |-> FALSE, err |-> FALSE]
             ELSE LET w == update_or_create(store, AZURE, StrOfInt(wid),
                                            AzureDefaults(rp.payload, board, cfg), t)
                  IN  [store |-> w.store, counted |-> ~w.err, err |-> w.err]

RECURSIVE AzureNormalize(_, _, _, _, _)
AzureNormalize(store, raw_items, board, cfg, t) ==
    IF raw_items = <<>> THEN [store |-> store, count |-> 0, err |-> FALSE]
    ELSE LET one == AzureNormalizeOne(store, Head(raw_items), board, cfg, t)
         IN  IF one.err THEN [store |-> one.store, count |-> 0, err |-> TRUE]
             ELSE LET rest == AzureNormalize(one.store, Tail(raw_items), board, cfg, t)
                  IN  [store |-> rest.store,
                       count |-> rest.count + (IF one.counted THEN 1 ELSE 0),
                       err |-> rest.err]

(***************************************************************************)
(* backfill_blocked_since (etl/sla.py)                                     *)
(***************************************************************************)
\* boards = the boards to process; the rows blocked with no blocked_since get
\* dev_started_at or ready_for_qa_at or created_at or now (None without
\* set_to_now_if_missing); save(update_fields=["blocked_since"])
BackfillValueMut(wi, set_to_now_if_missing, t) ==
    IF wi.created_at # None THEN wi.created_at
    ELSE IF set_to_now_if_missing THEN t ELSE None

BackfillValue(wi, set_to_now_if_missing, t) ==
    IF wi.dev_started_at # None THEN wi.dev_started_at
    ELSE IF wi.ready_for_qa_at # None THEN wi.ready_for_qa_at
    ELSE IF wi.created_at # None THEN wi.created_at
    ELSE IF set_to_now_if_missing THEN t ELSE None

backfill_blocked_since(store, boards, set_to_now_if_missing, t) ==
    [sid \in DOMAIN store |->
        IF /\ store[sid].board \in boards
           /\ store[sid].blocked_flag
           /\ store[sid].blocked_since = None
        THEN [store[sid] EXCEPT
                 !.blocked_since = BackfillValue(store[sid], set_to_now_if_missing, t)]
        ELSE store[sid]]

(***************************************************************************)
(* RemediationTicket helpers (etl/validator.py)                            *)
(***************************************************************************)
NewTicket(b, wi, rc, message, meta, t) ==
    [board |-> b, work_item |-> wi, rule_code |-> rc, message |-> message,
     meta |-> meta, status |-> OPEN, created_at |-> t, resolved_at |-> None]

\* .filter(board=, work_item=, rule_code=).exclude(status=DONE)
NonDone(ts, b, wi, rc) ==
    {i \in DOMAIN ts : ts[i].board = b /\ ts[i].work_item = wi
                       /\ ts[i].rule_code = rc /\ ts[i].status # DONE}

\* .order_by("-created_at").first(): a row with the greatest created_at;
\* the database may return any of several rows with equal created_at.
Firsts(ts, cand) ==
    {i \in cand : \A j \in cand : ts[j].created_at <= ts[i].created_at}

\* the update branch of open_ticket: message/meta refreshed if changed
RefreshTicketMut(rt, message, meta) == rt
\* a refresh that keeps the stored keys the passed meta does not name
RefreshTicketMerge(rt, message, meta) ==
    [rt EXCEPT !.message = message,
               !.meta = meta \cup {p \in @ : \A q \in meta : q[1] # p[1]}]
RefreshTicket(rt, message, meta) ==
    LET r1 == IF rt.message # message THEN [rt EXCEPT !.message = message] ELSE rt
    IN  IF meta # EmptyMeta /\ rt.meta # meta THEN [r1 EXCEPT !.meta = meta] ELSE r1

\* open_ticket: the set of <<table after the call, pk of the returned row>>
open_ticketMut(ts, b, wi, rc, message, meta, t) ==
    {<<Append(ts, NewTicket(b, wi, rc, message, meta, t)), Len(ts) + 1>>}
open_ticket(ts, b, wi, rc, message, meta, t) ==
    LET cand == NonDone(ts, b, wi, rc)
    IN  IF cand # {}
        THEN {<<[ts EXCEPT ![i] = RefreshTicket(ts[i], message, meta)], i>> :
                 i \in Firsts(ts, cand)}
        ELSE {<<Append(ts, NewTicket(b, wi, rc, message, meta, t)), Len(ts) + 1>>}

\* resolve_ticket_if_any: every non-done row of the key becomes done
resolve_ticket_if_anyMut(ts, b, wi, rc, t) ==
    [i \in DOMAIN ts |->
        IF i \in NonDone(ts, b, wi, rc)
        THEN [ts[i] EXCEPT !.status = DONE]
        ELSE ts[i]]
resolve_ticket_if_any(ts, b, wi, rc, t) ==
    [i \in DOMAIN ts |->
        IF i \in NonDone(ts, b, wi, rc)
        THEN [ts[i] EXCEPT !.status = DONE, !.resolved_at = t]
        ELSE ts[i]]

(***************************************************************************)
(* Specification SpecTickets: open_ticket and resolve_ticket_if_any called *)
(* one at a time, from an empty table.                                     *)
(***************************************************************************)
\* keys differing from <<1, PA1, "MISSING_POINTS">> in the item, or in the
\* board and the rule code
TicketKeys == {<<1, PA1, "MISSING_POINTS">>, <<1, NoItem, "MISSING_POINTS">>,
               <<2, PA1, "BLOCKED_SLA">>}
SlaMeta == {<<"sla_hours", 48>>}
\* <<key, message, meta>> of the open_ticket calls
OpenInputs == {<<<<1, PA1, "MISSING_POINTS">>, "m1", EmptyMeta>>,
               <<<<1, NoItem, "MISSING_POINTS">>, "m1", EmptyMeta>>,
               <<<<2, PA1, "BLOCKED_SLA">>, "m1", EmptyMeta>>,
               <<<<2, PA1, "BLOCKED_SLA">>, "m2", SlaMeta>>}

NoProc == [p \in {} |-> 0]

InitTickets ==
    /\ now = 0
    /\ tickets = <<>>
    /\ workitems = <<>>
    /\ config = <<>>
    /\ proc = NoProc
    /\ hist = NoOp

Tick ==
    /\ now < MaxClock * TickStep
    /\ now' = now + TickStep
    /\ UNCHANGED <<tickets, workitems, config, proc, hist>>

\* consecutive open_ticket calls for the key k so far (counted up to 2)
Streak(k) ==
    IF hist.op = "open" /\ hist.key = k THEN 2 ELSE 1

OpenTicket(k, message, meta) ==
    /\ \E out \in open_ticket(tickets, k[1], k[2], k[3], message, meta, now) :
          /\ Len(out[1]) <= MaxTickets
          /\ tickets' = out[1]
          /\ hist' = [op |-> "open", key |-> k, message |-> message,
                      rt |-> out[2], n |-> Streak(k),
                      \* an existing row held another message before the call
                      refreshed |-> /\ out[2] <= Len(tickets)
                                    /\ tickets[out[2]].message # message,
                      \* the call before was resolve_ticket_if_any of k, itself
                      \* preceded by an open_ticket of k that returned row prev
                      prev |-> IF hist.op = "resolve" /\ hist.key = k
                               THEN hist.prev ELSE 0]
    /\ UNCHANGED <<now, workitems, config, proc>>

ResolveTicketIfAny(k) ==
    /\ tickets' = resolve_ticket_if_any(tickets, k[1], k[2], k[3], now)
    /\ hist' = [op |-> "resolve", key |-> k,
                prev |-> IF hist.op = "open" /\ hist.key = k THEN hist.rt ELSE 0]
    /\ UNCHANGED <<now, workitems, config, proc>>

NextTickets ==
    \/ Tick
    \/ \E inp \in OpenInputs : OpenTicket(inp[1], inp[2], inp[3])
    \/ \E k \in TicketKeys : ResolveTicketIfAny(k)

SpecTickets == InitTickets /\ [][NextTickets]_vars

(***************************************************************************)
(* Properties of SpecTickets                                               *)
(***************************************************************************)
KeyOf(rt) == <<rt.board, rt.work_item, rt.rule_code>>

\* the rows of key k whose status is not done
Live(k) == {i \in DOMAIN tickets : KeyOf(tickets[i]) = k /\ tickets[i].status # DONE}

\* every key a ticket row can carry
AllKeys == {KeyOf(tickets[i]) : i \in DOMAIN tickets}

\* C1: for every (board, work_item, rule_code) at most one ticket has
\* status other than done, after any sequence of sequential
\* open_ticket / resolve_ticket_if_any calls.
C1_AtMostOneNonDone ==
    \A k \in AllKeys : Cardinality(Live(k)) <= 1

\* the key <<1,PA1,"MISSING_POINTS">> has been opened, resolved and opened
\* again while the key differing in the item holds a ticket as well
C1_Witness ==
    /\ Cardinality(Live(<<1, PA1, "MISSING_POINTS">>)) = 1
    /\ \E i \in DOMAIN tickets :
          tickets[i].status = DONE /\ KeyOf(tickets[i]) = <<1, PA1, "MISSING_POINTS">>
    /\ Cardinality(Live(<<1, NoItem, "MISSING_POINTS">>)) = 1

\* C7: after open_ticket has been called N >= 1 times in a row for one key,
\* exactly one ticket of that key is not done and its message is the message
\* of the last call.
C7_OneTicketLastMessage ==
    hist.op = "open" =>
        /\ Cardinality(Live(hist.key)) = 1
        /\ \A i \in Live(hist.key) : tickets[i].message = hist.message

\* a second consecutive open_ticket of a key replaced the stored message
C7_Witness ==
    /\ hist.op = "open" /\ hist.n = 2 /\ hist.refreshed
    /\ tickets[hist.rt].message = hist.message

\* C8: open_ticket, resolve_ticket_if_any, open_ticket for one key: the row
\* returned by the first open_ticket is done with resolved_at set and is left
\* as it is by the second open_ticket, which appends a new row that is not done.
C8_ResolveRoundTrip ==
    [][ (hist.op = "resolve" /\ hist.prev # 0
         /\ hist'.op = "open" /\ hist'.key = hist.key)
        => /\ tickets[hist.prev].status = DONE
           /\ tickets[hist.prev].resolved_at # None
           /\ tickets'[hist.prev] = tickets[hist.prev]
           /\ Len(tickets') = Len(tickets) + 1
           /\ hist'.rt = Len(tickets') /\ hist'.rt # hist.prev
           /\ KeyOf(tickets'[hist'.rt]) = hist.key
           /\ tickets'[hist'.rt].status # DONE
           /\ tickets'[hist'.rt].resolved_at = None ]_vars

\* the round trip has happened: two rows of one key, the older done
C8_Witness ==
    /\ hist.op = "open" /\ hist.prev # 0
    /\ tickets[hist.prev].status = DONE
    /\ tickets[hist.rt].status = OPEN
    /\ KeyOf(tickets[hist.prev]) = KeyOf(tickets[hist.rt])

(***************************************************************************)
(* Specification SpecOpenRace: two jobs of one board (etl_validate runs,   *)
(* at-least-once delivery) call open_ticket concurrently.  open_ticket     *)
(* takes no lock and opens no transaction: its SELECT and its              *)
(* INSERT/UPDATE are separate statements other jobs can run between.       *)
(***************************************************************************)
Jobs == {1, 2}
Idle == [pc |-> "idle"]

InitOpenRace ==
    /\ now = 0
    /\ tickets = <<>>
    /\ workitems = <<>>
    /\ config = <<>>
    /\ proc = [j \in Jobs |-> Idle]
    /\ hist = NoOp

\* validator.py 50-54: the lookup; the row read stays in the job's memory
OTLookup(j, k, message, meta) ==
    /\ proc[j].pc = "idle"
    /\ LET cand == NonDone(tickets, k[1], k[2], k[3])
       IN  IF cand # {}
           THEN \E i \in Firsts(tickets, cand) :
                   proc' = [proc EXCEPT ![j] =
                              [pc |-> "update", key |-> k, message |-> message,
                               meta |-> meta, rt |-> i, obj |-> tickets[i]]]
           ELSE proc' = [proc EXCEPT ![j] =
                              [pc |-> "create", key |-> k, message |-> message,
                               meta |-> meta]]
    /\ UNCHANGED <<now, tickets, workitems, config, hist>>

\* validator.py 55-66: rt.save(update_fields=["message", "meta"]) if changed
OTUpdate(j) ==
    /\ proc[j].pc = "update"
    /\ LET new == RefreshTicket(proc[j].obj, proc[j].message, proc[j].meta)
       IN  tickets' = IF new # proc[j].obj
                      THEN [tickets EXCEPT ![proc[j].rt].message = new.message,
                                           ![proc[j].rt].meta = new.meta]
                      ELSE tickets
    /\ proc' = [proc EXCEPT ![j] = Idle]
    /\ UNCHANGED <<now, workitems, config, hist>>

\* validator.py 68-74: RemediationTicket.objects.create
OTCreate(j) ==
    /\ proc[j].pc = "create"
    /\ Len(tickets) < MaxTickets
    /\ LET k == proc[j].key
       IN  tickets' = Append(tickets, NewTicket(k[1], k[2], k[3], proc[j].message,
                                                proc[j].meta, now))
    /\ proc' = [proc EXCEPT ![j] = Idle]
    /\ UNCHANGED <<now, workitems, config, hist>>

\* resolve_ticket_if_any run by an idle job
RTResolve(j, k) ==
    /\ proc[j].pc = "idle"
    /\ tickets' = resolve_ticket_if_any(tickets, k[1], k[2], k[3], now)
    /\ UNCHANGED <<now, workitems, config, proc, hist>>

RaceKeys == {<<1, PA1, "MISSING_POINTS">>, <<1, PA1, "STUCK_IN_DEV">>}

NextOpenRace ==
    \/ Tick
    \/ \E j \in Jobs, k \in RaceKeys, m \in {"m1", "m2"} : OTLookup(j, k, m, EmptyMeta)
    \/ \E j \in Jobs : OTUpdate(j)
    \/ \E j \in Jobs : OTCreate(j)
    \/ \E j \in Jobs, k \in RaceKeys : RTResolve(j, k)

SpecOpenRace == InitOpenRace /\ [][NextOpenRace]_vars

\* C2: when two jobs run open_ticket concurrently for one key, in every
\* interleaving of their lookup and create steps at most one non-done ticket
\* of that key exists once both calls have returned.
C2_NoDuplicateUnderRace ==
    (\A j \in Jobs : proc[j].pc = "idle") =>
        \A k \in RaceKeys : Cardinality(Live(k)) <= 1

(***************************************************************************)
(* Specification SpecNormalize: normalization runs and                     *)
(* backfill_blocked_since executed one at a time, from an empty store.     *)
(***************************************************************************)
StartTime == 10 * Day      \* the clock when the model starts

\* the config document of the active MappingVersion
JiraConfig ==
    [jira |-> [points_field |-> "customfield_10016",
               status_map |-> [dev_started |-> <<<<"i", "n", " ", "d", "e", "v">>>>,
                               ready_for_qa |-> <<<<"R", "e", "a", "d", "y", " ", "f", "o", "r", " ", "Q", "A">>>>,
                               qa_started |-> <<<<"Q", "A">>>>,
                               done |-> <<<<"D", "o", "n", "e">>, <<"C", "l", "o", "s", "e", "d">>>>]]]

Changelog1 == <<[created |-> 7 * Day,
                 items |-> <<[field |-> "assignee", toString |-> <<"I", "n", " ", "D", "e", "v">>]>>],
                [created |-> 6 * Day,
                 items |-> <<[field |-> "status", toString |-> <<"I", "n", " ", "D", "e", "v">>]>>]>>

RawJira(issue) == [source |-> JIRA, object_type |-> "issue", payload |-> issue]

\* PA-1: in development, not blocked, no story points
Jira1 == RawJira([key |-> PA1, changelog |-> Changelog1,
                  fields |-> [summary |-> <<"L", "o", "g", "i", "n">>, issuetype |-> <<"S", "t", "o", "r", "y">>,
                              status |-> <<"I", "n", " ", "D", "e", "v">>, created |-> 5 * Day]])
\* PA-1: blocked by its status, child of PA-2
Jira2 == RawJira([key |-> PA1, changelog |-> Changelog1,
                  fields |-> [summary |-> <<"L", "o", "g", "i", "n">>, issuetype |-> <<"S", "t", "o", "r", "y">>,
                              status |-> <<"B", "l", "o", "c", "k", "e", "d">>, created |-> 5 * Day,
                              parent |-> PA2]])
\* PA-1: blocked by a label, story points set
Jira3 == RawJira([key |-> PA1, changelog |-> Changelog1,
                  fields |-> [summary |-> <<"L", "o", "g", "i", "n">>, issuetype |-> <<"S", "t", "o", "r", "y">>,
                              status |-> <<"I", "n", " ", "D", "e", "v">>, created |-> 5 * Day,
                              labels |-> <<<<"u", "i">>, <<"B", "l", "o", "c", "k", "e", "r">>>>,
                              customfield_10016 |-> 5]])
\* PA-1: resolved
Jira4 == RawJira([key |-> PA1, changelog |-> Changelog1,
                  fields |-> [summary |-> <<"L", "o", "g", "i", "n">>, issuetype |-> <<"S", "t", "o", "r", "y">>,
                              status |-> <<"D", "o", "n", "e">>, created |-> 5 * Day,
                              resolutiondate |-> 9 * Day]])
\* PA-2: the parent, blocked, identified by id only
Jira5 == RawJira([id |-> PA2,
                  fields |-> [issuetype |-> <<"E", "p", "i", "c">>, status |-> <<"B", "L", "O", "C", "K", "E", "D">>,
                              customfield_10016 |-> BadNumber]])
\* not an issue; an issue with no key
Jira6 == [source |-> JIRA, object_type |-> "sprint", payload |-> [key |-> PA1]]
Jira7 == RawJira([fields |-> [summary |-> <<"L", "o", "g", "i", "n">>]])

Id7 == <<"7">>
ClickUp1 == [source |-> CLICKUP, object_type |-> "task",
             payload |-> [id |-> Id7, name |-> <<"F", "i", "x", " ", "B", "u", "g">>, status |-> <<"o", "p", "e", "n">>,
                          date_created |-> 8 * Day,
                          custom_fields |-> <<[name |-> <<"S", "p", "r", "i", "n", "t">>, value |-> 3],
                                              [name |-> <<"s", "t", "o", "r", "y", " ", "p", "o", "i", "n", "t", "s">>, value |-> 3]>>]]
ClickUp2 == [source |-> CLICKUP, object_type |-> "task",
             payload |-> [name |-> <<"N", "o", " ", "i", "d">>]]
Azure1 == [source |-> AZURE, object_type |-> "work_item",
           payload |-> [id |-> 7,
                        fields |-> ("System.Title" :> <<"E", "x", "p", "o", "r", "t">>)
                                   @@ ("System.WorkItemType" :> <<"T", "a", "s", "k">>)
                                   @@ ("System.State" :> <<"A", "c", "t", "i", "v", "e">>)
                                   @@ ("System.CreatedDate" :> 8 * Day)
                                   @@ ("System.ClosedDate" :> 9 * Day)]]
Azure2 == [source |-> AZURE, object_type |-> "work_item",
           payload |-> [id |-> 0, fields |-> ("System.Title" :> <<"E", "x", "p", "o", "r", "t">>)]]

\* <<board, batch>> of the normalize calls
JiraRuns == {<<1, <<Jira1>>>>, <<1, <<Jira2>>>>, <<1, <<Jira3>>>>, <<1, <<Jira4>>>>,
             <<1, <<Jira5>>>>, <<1, <<Jira6>>>>, <<1, <<Jira7>>>>, <<2, <<Jira2>>>>,
             <<1, <<Jira6, Jira7, Jira1>>>>}
ClickUpRuns == {<<2, <<ClickUp1>>>>, <<2, <<ClickUp2>>>>, <<2, <<ClickUp2, Azure1, ClickUp1>>>>}
AzureRuns == {<<2, <<Azure1>>>>, <<2, <<Azure2>>>>}

InitNormalize ==
    /\ now = StartTime
    /\ tickets = <<>>
    /\ workitems = <<>>
    /\ config = JiraConfig
    /\ proc = NoProc
    /\ hist = [op |-> "none", tog |-> FALSE]

TickN ==
    /\ now < StartTime + MaxClock * TickStep
    /\ now' = now + TickStep
    /\ UNCHANGED <<tickets, workitems, config, proc, hist>>

\* the history of a normalize call; tog flips at every call
NormHist(source, board, raw_items, res) ==
    [op |-> "normalize", source |-> source, board |-> board,
     raw_items |-> raw_items, err |-> res.err, count |-> res.count,
     tog |-> ~hist.tog]

NormalizeJira(board, raw_items) ==
    LET res == JiraNormalize(workitems, raw_items, board, config, now)
    IN  /\ workitems' = res.store
        /\ hist' = NormHist(JIRA, board, raw_items, res)
        /\ UNCHANGED <<now, tickets, config, proc>>

NormalizeClickUp(board, raw_items) ==
    LET res == ClickUpNormalize(workitems, raw_items, board, config, now)
    IN  /\ workitems' = res.store
        /\ hist' = NormHist(CLICKUP, board, raw_items, res)
        /\ UNCHANGED <<now, tickets, config, proc>>

NormalizeAzure(board, raw_items) ==
    LET res == AzureNormalize(workitems, raw_items, board, config, now)
    IN  /\ workitems' = res.store
        /\ hist' = NormHist(AZURE, board, raw_items, res)
        /\ UNCHANGED <<now, tickets, config, proc>>

\* backfill_blocked_since(board_id, set_to_now_if_missing); board_id None = all
Backfill(boards, set_to_now_if_missing) ==
    /\ workitems' = backfill_blocked_since(workitems, boards, set_to_now_if_missing, now)
    /\ hist' = [op |-> "backfill", tog |-> ~hist.tog]
    /\ UNCHANGED <<now, tickets, config, proc>>

NextNormalize ==
    \/ TickN
    \/ \E r \in JiraRuns : NormalizeJira(r[1], r[2])
    \/ \E r \in ClickUpRuns : NormalizeClickUp(r[1], r[2])
    \/ \E r \in AzureRuns : NormalizeAzure(r[1], r[2])
    \/ \E bs \in {{1}, Boards}, s \in BOOLEAN : Backfill(bs, s)

SpecNormalize == InitNormalize /\ [][NextNormalize]_vars

(***************************************************************************)
(* Properties of SpecNormalize                                             *)
(***************************************************************************)
\* C3: across sequential Jira normalization runs of an item, blocked_since
\* keeps its value while blocked_flag stays true, becomes null in the run
\* where blocked_flag becomes false, and is the time of the run in which
\* blocked_flag becomes true (again, or on creation).
C3_BlockedSinceTransitions ==
    [][ \A sid \in DOMAIN workitems' :
           workitems'[sid].source = JIRA =>
              LET new == workitems'[sid]
                  was == sid \in DOMAIN workitems
              IN  /\ (was /\ workitems[sid].blocked_flag /\ new.blocked_flag
                          /\ workitems[sid].blocked_since # None)
                        => new.blocked_since = workitems[sid].blocked_since
                  /\ (was /\ workitems[sid].blocked_flag /\ ~new.blocked_flag)
                        => new.blocked_since = None
                  /\ ((~was \/ ~workitems[sid].blocked_flag) /\ new.blocked_flag)
                        => new.blocked_since = now ]_vars

\* PA-1 was blocked in an earlier run and a later Jira run has rewritten the
\* row while it stayed blocked
C3_Witness ==
    /\ hist.op = "normalize" /\ hist.source = JIRA /\ ~hist.err
    /\ PA1 \in DOMAIN workitems
    /\ workitems[PA1].blocked_flag
    /\ workitems[PA1].blocked_since # None
    /\ workitems[PA1].blocked_since < workitems[PA1].last_synced

\* C5: every WorkItem has blocked_since null if and only if blocked_flag is
\* false, in every state reached by normalization runs, placeholder-parent
\* creation and backfill_blocked_since run one at a time from an empty store.
C5_BlockedSinceIffBlocked ==
    \A sid \in DOMAIN workitems :
        (workitems[sid].blocked_since = None) <=> ~workitems[sid].blocked_flag

\* backfill has run over a store holding a blocked item, an item that was
\* unblocked again and a placeholder parent
C5_Witness ==
    /\ hist.op = "backfill"
    /\ \E sid \in DOMAIN workitems : workitems[sid].blocked_flag
    /\ PA1 \in DOMAIN workitems /\ ~workitems[PA1].blocked_flag
    /\ workitems[PA1].closed
    /\ PA2 \in DOMAIN workitems

\* the source_id a raw record is stored under by the normalizer of source,
\* <<>> when the normalizer skips the record
SourceIdOf(source, rp) ==
    IF source = JIRA
    THEN IF rp.source = JIRA /\ rp.object_type = "issue" THEN JiraKey(rp.payload) ELSE <<>>
    ELSE IF source = CLICKUP
    THEN IF rp.source = CLICKUP /\ rp.object_type = "task"
         THEN GetText(rp.payload, "id") ELSE <<>>
    ELSE IF rp.source = AZURE /\ rp.object_type = "work_item"
              /\ GetNum(rp.payload, "id") \notin {None, 0}
         THEN StrOfInt(rp.payload.id) ELSE <<>>

\* this step is the second of two consecutive normalize calls with the same
\* normalizer, board and raw record
SecondRun ==
    /\ hist.op = "normalize" /\ hist'.op = "normalize" /\ hist'.tog # hist.tog
    /\ hist'.source = hist.source /\ hist'.board = hist.board
    /\ hist'.raw_items = hist.raw_items
    /\ SourceIdOf(hist.source, hist.raw_items[1]) # <<>>

\* C6: normalizing the same RawPayload record twice leaves exactly one
\* WorkItem row for its (source, source_id), and every field of the row after
\* the second run equals its value after the first run.
C6_RenormalizeIdempotent ==
    [][ SecondRun =>
          LET sid == SourceIdOf(hist.source, hist.raw_items[1])
          IN  /\ sid \in DOMAIN workitems /\ sid \in DOMAIN workitems'
              /\ workitems'[sid].source = hist.source
              /\ workitems'[sid] = workitems[sid] ]_vars

\* C16: rows are keyed by (source, source_id): a normalize call completes
\* without error and every record it stores has its own row of its source,
\* whatever rows of other sources carry the same external id.
C16_KeyedBySourceAndId ==
    hist.op = "normalize" =>
        /\ ~hist.err
        /\ \A i \in DOMAIN hist.raw_items :
              LET sid == SourceIdOf(hist.source, hist.raw_items[i])
              IN  sid # <<>> => Exists(workitems, hist.source, sid)

\* C17: in every state reached by normalization runs and placeholder-parent
\* creation, every WorkItem has closed = true if and only if its done_at is
\* set.
C17_ClosedIffDoneAt ==
    \A sid \in DOMAIN workitems :
        workitems[sid].closed <=> workitems[sid].done_at # None
\* a resolved issue next to a placeholder parent, and a closed Azure item
C17_Witness ==
    /\ hist.op = "normalize"
    /\ \E sid \in DOMAIN workitems :
          workitems[sid].closed /\ workitems[sid].done_at # None
    /\ \E sid \in DOMAIN workitems :
          /\ workitems[sid].title = ParentTitle(sid)
          /\ ~workitems[sid].closed /\ workitems[sid].done_at = None

\* the records of a batch the normalizer of source stores
Stored(source, raw_items) ==
    {i \in DOMAIN raw_items : SourceIdOf(source, raw_items[i]) # <<>>}

\* C18: a normalize call returns the number of records of its source and
\* object type that carry their external id, and each of them has its row
\* afterwards; a batch of other records writes nothing; no call ends with an
\* error.
C18_CountsStoredRecords ==
    [][(hist'.op = "normalize" /\ hist'.tog # hist.tog) =>
          /\ ~hist'.err
          /\ hist'.count = Cardinality(Stored(hist'.source, hist'.raw_items))
          /\ \A i \in Stored(hist'.source, hist'.raw_items) :
                Exists(workitems', hist'.source,
                       SourceIdOf(hist'.source, hist'.raw_items[i]))
          /\ Stored(hist'.source, hist'.raw_items) = {} => workitems' = workitems]_vars

(***************************************************************************)
(* Specification SpecJiraRace: two etl_normalize jobs run the Jira         *)
(* normalizer concurrently.  Per record a job runs upsert_parent, then the *)
(* transaction of jira.py 122-137 (SELECT ... FOR UPDATE and the           *)
(* computation of blocked_since; the lock is released when the block is    *)
(* left), then update_or_create in a transaction of its own.               *)
(***************************************************************************)
RaceRecords == {Jira1, Jira2, Jira3}

InitJiraRace ==
    /\ now = StartTime
    /\ tickets = <<>>
    /\ workitems = <<>>
    /\ config = JiraConfig
    /\ proc = [j \in Jobs |-> Idle]
    /\ hist = [op |-> "none", tog |-> FALSE]

\* jira.py 35-91: the record is taken and upsert_parent has run
JParent(j, board, rp) ==
    /\ proc[j].pc = "idle"
    /\ LET up == upsert_parent(workitems, board, JIRA,
                               GetText(rp.payload.fields, "parent"), now)
       IN  /\ ~up.err
           /\ workitems' = up.store
           /\ proc' = [proc EXCEPT ![j] = [pc |-> "read", board |-> board, rp |-> rp,
                                           parent |-> up.parent]]
    /\ UNCHANGED <<now, tickets, config, hist>>

\* jira.py 93-137: defaults, with blocked_since from the row read under the lock
JRead(j) ==
    /\ proc[j].pc = "read"
    /\ LET issue == proc[j].rp.payload
           key == JiraKey(issue)
           d0 == JiraDefaults(issue, proc[j].board, config)
           found == Exists(workitems, JIRA, key)
           bs == BlockedSince(found, IF found THEN workitems[key] ELSE <<>>,
                              d0.blocked_flag, now)
           defaults == [f \in DOMAIN d0 \cup {"parent_story", "blocked_since"} |->
                          IF f = "parent_story" THEN proc[j].parent
                          ELSE IF f = "blocked_since" THEN bs ELSE d0[f]]
       IN  proc' = [proc EXCEPT ![j] = [pc |-> "write", key |-> key,
                                        defaults |-> defaults]]
    /\ UNCHANGED <<now, tickets, workitems, config, hist>>

\* jira.py 139-143: update_or_create, outside the transaction of the read
JWrite(j) ==
    /\ proc[j].pc = "write"
    /\ LET w == update_or_create(workitems, JIRA, proc[j].key, proc[j].defaults, now)
       IN  workitems' = w.store
    /\ proc' = [proc EXCEPT ![j] = Idle]
    /\ UNCHANGED <<now, tickets, config, hist>>

NextJiraRace ==
    \/ TickN
    \/ \E j \in Jobs, rp \in RaceRecords : JParent(j, 1, rp)
    \/ \E j \in Jobs : JRead(j)
    \/ \E j \in Jobs : JWrite(j)

SpecJiraRace == InitJiraRace /\ [][NextJiraRace]_vars

\* C4: when two Jira normalization runs process one item concurrently, the
\* stored blocked_since never changes from one non-null value to another
\* while blocked_flag stays true.
C4_NoDivergentBlockedSince ==
    [][ \A sid \in DOMAIN workitems :
           (/\ workitems[sid].blocked_flag /\ workitems'[sid].blocked_flag
            /\ workitems[sid].blocked_since # None
            /\ workitems'[sid].blocked_since # None)
           => workitems'[sid].blocked_since = workitems[sid].blocked_since ]_vars

(***************************************************************************)
(* The rule engine (etl/validator.py)                                      *)
(***************************************************************************)
Range(s) == {s[i] : i \in DOMAIN s}

\* getattr(settings, "VALIDATOR_DEFAULTS", {}): the process-wide defaults;
\* the settings module sets none, so the getattr default applies
VALIDATOR_DEFAULTS == [k \in {} |-> None]

\* _fallback(key): defaults.get(key)
_fallback(key) == GetNum(VALIDATOR_DEFAULTS, key)

\* _cfg([key], default) on the "validator" section of the active config
_cfg(cfg, key, default) ==
    IF Has(cfg, "validator") /\ Has(cfg.validator, key)
    THEN cfg.validator[key] ELSE default

\* int(_cfg([key], _fallback(key)) or builtin): a falsy value, 0 included,
\* gives the builtin
max_days_of(cfg, key, builtin) ==
    LET v == _cfg(cfg, key, _fallback(key))
    IN  IF v = None \/ v = 0 THEN builtin ELSE v

\* _days_ago(d): whole days between d and timezone.now()
_days_ago(d, t) == IF d = None THEN None ELSE (t - d) \div Day

\* what a rule decides for one item
Compliant == [open |-> FALSE, message |-> <<>>]
Violation(message) == [open |-> TRUE, message |-> message]

\* the loop of a rule from item i on: open_ticket for a violating item,
\* resolve_ticket_if_any for a compliant one; the set of [ts, count]
RECURSIVE ForItems(_, _, _, _, _, _, _, _)
ForItems(ts, board, rule_code, items, decide, i, count, t) ==
    IF i > Len(items) THEN {[ts |-> ts, count |-> count]}
    ELSE IF decide[items[i]].open
    THEN UNION {ForItems(o[1], board, rule_code, items, decide, i + 1, count + 1, t) :
                  o \in open_ticket(ts, board, items[i], rule_code,
                                    decide[items[i]].message, EmptyMeta, t)}
    ELSE ForItems(resolve_ticket_if_any(ts, board, items[i], rule_code, t),
                  board, rule_code, items, decide, i + 1, count, t)

\* the f-string messages, as the tuple of rule and interpolated values
rule_missing_points(ts, board, store, items, cfg, t) ==
    LET require_types == Range(_cfg(cfg, "require_points_for_types",
                                    GetList(VALIDATOR_DEFAULTS, "require_points_for_types")))
        ignore_subtasks == _cfg(cfg, "ignore_when_subtask",
                                Has(VALIDATOR_DEFAULTS, "ignore_when_subtask"))
        decide == [sid \in Range(items) |->
                     LET wi == store[sid]
                     IN  IF ignore_subtasks /\ wi.item_type = SUBTASK THEN Compliant
                         ELSE IF Lower(wi.item_type) \notin require_types THEN Compliant
                         ELSE IF wi.dev_started_at # None /\ wi.story_points = None
                         THEN Violation(<<"Story points are required before dev starts", sid>>)
                         ELSE Compliant]
    IN  ForItems(ts, board, "MISSING_POINTS", items, decide, 1, 0, t)

rule_stuck_in_dev(ts, board, store, items, cfg, t) ==
    LET max_days == max_days_of(cfg, "max_dev_days_without_progress", 4)
        decide == [sid \in Range(items) |->
                     LET wi == store[sid]
                         days == _days_ago(wi.dev_started_at, t)
                     IN  IF wi.dev_started_at # None /\ wi.dev_done_at = None /\ ~wi.closed
                         THEN IF days > max_days
                              THEN Violation(<<"Dev in progress for days", days, max_days>>)
                              ELSE Compliant
                         ELSE Compliant]
    IN  ForItems(ts, board, "STUCK_IN_DEV", items, decide, 1, 0, t)

rule_waiting_for_qa(ts, board, store, items, cfg, t) ==
    LET max_days == max_days_of(cfg, "max_ready_for_qa_days", 2)
        decide == [sid \in Range(items) |->
                     LET wi == store[sid]
                         days == _days_ago(wi.ready_for_qa_at, t)
                     IN  IF wi.ready_for_qa_at # None /\ wi.qa_started_at = None /\ ~wi.closed
                         THEN IF days > max_days
                              THEN Violation(<<"In 'Ready for QA' for days", days, max_days>>)
                              ELSE Compliant
                         ELSE Compliant]
    IN  ForItems(ts, board, "WAITING_FOR_QA", items, decide, 1, 0, t)

rule_stuck_in_qa(ts, board, store, items, cfg, t) ==
    LET max_days == max_days_of(cfg, "max_qa_days", 3)
        decide == [sid \in Range(items) |->
                     LET wi == store[sid]
                         days == _days_ago(wi.qa_started_at, t)
                     IN  IF /\ wi.qa_started_at # None
                            /\ ~(wi.qa_verified_at # None \/ wi.signed_off_at # None
                                 \/ wi.done_at # None)
                         THEN IF days > max_days
                              THEN Violation(<<"QA in progress for days", days, max_days>>)
                              ELSE Compliant
                         ELSE Compliant]
    IN  ForItems(ts, board, "STUCK_IN_QA", items, decide, 1, 0, t)

rule_blocked_reason(ts, board, store, items, cfg, t) ==
    LET decide == [sid \in Range(items) |->
                     LET wi == store[sid]
                     IN  IF wi.blocked_flag /\ Strip(wi.blocked_reason) = <<>>
                         THEN Violation(<<"Work item is blocked but no blocked_reason is provided.">>)
                         ELSE Compliant]
    IN  ForItems(ts, board, "BLOCKED_NO_REASON", items, decide, 1, 0, t)

rule_pr_required(ts, board, store, items, cfg, t) ==
    LET require_types == Range(_cfg(cfg, "require_pr_for_types",
                                    GetList(VALIDATOR_DEFAULTS, "require_pr_for_types")))
        keywords == {Lower(k) : k \in
                        Range(_cfg(cfg, "pr_required_when_status_contains",
                                   GetList(VALIDATOR_DEFAULTS, "pr_required_when_status_contains")))}
        decide == [sid \in Range(items) |->
                     LET wi == store[sid]
                         status == Lower(wi.status)
                         needs_pr == \E kw \in keywords : Contains(kw, status)
                         has_pr == wi.linked_prs # <<>>
                     IN  IF Lower(wi.item_type) \notin require_types THEN Compliant
                         ELSE IF needs_pr /\ ~has_pr
                         THEN Violation(<<"Status but no linked PR found", wi.status>>)
                         ELSE Compliant]
    IN  ForItems(ts, board, "PR_REQUIRED", items, decide, 1, 0, t)

ALL_RULES == <<"MISSING_POINTS", "STUCK_IN_DEV", "WAITING_FOR_QA",
               "STUCK_IN_QA", "BLOCKED_NO_REASON", "PR_REQUIRED">>

\* func(board, items) of the entry code of ALL_RULES
RunRule(code, ts, board, store, items, cfg, t) ==
    CASE code = "MISSING_POINTS" -> rule_missing_points(ts, board, store, items, cfg, t)
      [] code = "STUCK_IN_DEV" -> rule_stuck_in_dev(ts, board, store, items, cfg, t)
      [] code = "WAITING_FOR_QA" -> rule_waiting_for_qa(ts, board, store, items, cfg, t)
      [] code = "STUCK_IN_QA" -> rule_stuck_in_qa(ts, board, store, items, cfg, t)
      [] code = "BLOCKED_NO_REASON" -> rule_blocked_reason(ts, board, store, items, cfg, t)
      [] code = "PR_REQUIRED" -> rule_pr_required(ts, board, store, items, cfg, t)

\* the loop of validate_board from rule r on: the set of [tickets, results]
RECURSIVE RunRules(_, _, _, _, _, _, _, _)
RunRules(ts, board, store, items, cfg, t, r, results) ==
    IF r > Len(ALL_RULES) THEN {[tickets |-> ts, results |-> results]}
    ELSE UNION {RunRules(o.ts, board, store, items, cfg, t, r + 1,
                         (ALL_RULES[r] :> o.count) @@ results) :
                  o \in RunRule(ALL_RULES[r], ts, board, store, items, cfg, t)}

\* WorkItem.objects.filter(board=board) has no order_by: the rows come in
\* any order, the same for the six rules (the queryset caches its rows)
Orders(S) ==
    {s \in [1..Cardinality(S) -> S] : \A i, j \in DOMAIN s : s[i] = s[j] => i = j}

validate_board(ts, board, store, cfg, t) ==
    UNION {RunRules(ts, board, store, items, cfg, t, 1, <<>>) :
             items \in Orders({sid \in DOMAIN store : store[sid].board = board})}

\* add_linked_pr without the look for an entry of the pr_id
add_linked_prMut(store, sid, pr_dict, reviewers) ==
    [store EXCEPT ![sid].linked_prs =
        Append(@, [pr_id |-> pr_dict.pr_id, opened_at |-> pr_dict.opened_at,
                   first_reviewed_at |-> pr_dict.first_reviewed_at,
                   merged_at |-> pr_dict.merged_at,
                   reviewers |-> reviewers])]

\* base.add_linked_pr: append the PR unless its pr_id is linked already;
\* save(update_fields=["linked_prs"]) leaves last_synced alone
add_linked_pr(store, sid, pr_dict, reviewers) ==
    LET linked == store[sid].linked_prs
        exists == \E i \in DOMAIN linked : linked[i].pr_id = pr_dict.pr_id
    IN  IF exists THEN store
        ELSE [store EXCEPT ![sid].linked_prs =
                 Append(linked, [pr_id |-> pr_dict.pr_id, opened_at |-> pr_dict.opened_at,
                                 first_reviewed_at |-> pr_dict.first_reviewed_at,
                                 merged_at |-> pr_dict.merged_at,
                                 reviewers |-> reviewers])]

(***************************************************************************)
(* Specification SpecValidate: normalization runs, PR links and            *)
(* validate_board calls executed one at a time.                            *)
(***************************************************************************)
MaxRows == 3     \* RemediationTicket rows a validate_board call may leave

\* active configs: no validator section; type sets and thresholds, one zero
ValidatorTypes ==
    [validator |-> [require_points_for_types |-> <<STORY, BUG>>,
                    ignore_when_subtask |-> TRUE,
                    max_dev_days_without_progress |-> 3,
                    max_ready_for_qa_days |-> 1,
                    max_qa_days |-> 0,
                    require_pr_for_types |-> <<STORY>>,
                    pr_required_when_status_contains |-> <<<<"D", "e", "v">>>>]] @@ JiraConfig
ValidateConfigs == {JiraConfig, ValidatorTypes}

Changelog2 == Changelog1 \o
              <<[created |-> 6 * Day,
                 items |-> <<[field |-> "status", toString |-> <<"R", "e", "a", "d", "y", " ", "f", "o", "r", " ", "Q", "A">>]>>]>>
Changelog3 == Changelog2 \o
              <<[created |-> 7 * Day,
                 items |-> <<[field |-> "status", toString |-> <<"Q", "A">>]>>]>>

\* PA-1 waiting for QA; PA-1 in QA
Jira9 == RawJira([key |-> PA1, changelog |-> Changelog2,
                  fields |-> [summary |-> <<"L", "o", "g", "i", "n">>, issuetype |-> <<"S", "t", "o", "r", "y">>,
                              status |-> <<"R", "e", "a", "d", "y", " ", "f", "o", "r", " ", "Q", "A">>, created |-> 5 * Day,
                              customfield_10016 |-> 5]])
Jira10 == RawJira([key |-> PA1, changelog |-> Changelog3,
                   fields |-> [summary |-> <<"L", "o", "g", "i", "n">>, issuetype |-> <<"S", "t", "o", "r", "y">>,
                               status |-> <<"Q", "A">>, created |-> 5 * Day,
                               customfield_10016 |-> 5]])

ValidateRuns == {<<1, <<Jira1>>>>, <<1, <<Jira2>>>>, <<1, <<Jira4>>>>,
                 <<1, <<Jira9>>>>, <<1, <<Jira10>>>>}

\* the pull request the GitHub normalizer links to PA-1
Pr9 == [pr_id |-> <<"9">>, opened_at |-> 9 * Day, first_reviewed_at |-> None,
        merged_at |-> None]

InitValidate ==
    /\ now = StartTime
    /\ tickets = <<>>
    /\ workitems = <<>>
    /\ config \in ValidateConfigs
    /\ proc = NoProc
    /\ hist = NoOp

\* a Jira normalization run whose result only the store keeps
SyncJira(board, raw_items) ==
    /\ workitems' = JiraNormalize(workitems, raw_items, board, config, now).store
    /\ hist' = [op |-> "normalize"]
    /\ UNCHANGED <<now, tickets, config, proc>>

AddLinkedPr(sid) ==
    /\ sid \in DOMAIN workitems
    /\ workitems' = add_linked_pr(workitems, sid, Pr9, <<>>)
    /\ hist' = [op |-> "link"]
    /\ UNCHANGED <<now, tickets, config, proc>>

\* the call repeats the previous call: same board, same clock, nothing between
Repeats(board) == hist.op = "validate" /\ hist.board = board /\ hist.at = now

\* validate_board(board); hist keeps the returned counts, the clock and
\* whether the call repeated the previous one
ValidateBoard(board) ==
    \E out \in validate_board(tickets, board, workitems, config, now) :
        /\ Len(out.tickets) <= MaxRows
        /\ tickets' = out.tickets
        /\ hist' = [op |-> "validate", board |-> board, results |-> out.results,
                    at |-> now, again |-> Repeats(board)]
        /\ UNCHANGED <<now, workitems, config, proc>>

NextValidate ==
    \/ TickN
    \/ \E r \in ValidateRuns : SyncJira(r[1], r[2])
    \/ AddLinkedPr(PA1)
    \/ ValidateBoard(1)

SpecValidate == InitValidate /\ [][NextValidate]_vars

(***************************************************************************)
(* Properties of SpecValidate                                              *)
(***************************************************************************)
\* the threshold of a rule as configured: the value of the validator
\* section when the key is present, the default otherwise
ConfiguredDays(key, default) ==
    IF Has(config, "validator") /\ Has(config.validator, key)
    THEN config.validator[key] ELSE default

ConfiguredTypes(key) ==
    IF Has(config, "validator") /\ Has(config.validator, key)
    THEN {config.validator[key][i] : i \in DOMAIN config.validator[key]} ELSE {}

\* age(d) > days, in seconds
OlderThan(d, days) == now - d > days * Day

\* the item violates the rule now
Violates(rule_code, wi) ==
    CASE rule_code = "MISSING_POINTS" ->
            /\ wi.item_type \in ConfiguredTypes("require_points_for_types")
            /\ ~(/\ Has(config, "validator")
                 /\ Has(config.validator, "ignore_when_subtask")
                 /\ config.validator.ignore_when_subtask
                 /\ wi.item_type = SUBTASK)
            /\ wi.dev_started_at # None
            /\ wi.story_points = None
      [] rule_code = "STUCK_IN_DEV" ->
            /\ wi.dev_started_at # None /\ wi.dev_done_at = None /\ ~wi.closed
            /\ OlderThan(wi.dev_started_at, ConfiguredDays("max_dev_days_without_progress", 4))
      [] rule_code = "WAITING_FOR_QA" ->
            /\ wi.ready_for_qa_at # None /\ wi.qa_started_at = None /\ ~wi.closed
            /\ OlderThan(wi.ready_for_qa_at, ConfiguredDays("max_ready_for_qa_days", 2))
      [] rule_code = "STUCK_IN_QA" ->
            /\ wi.qa_started_at # None
            /\ wi.qa_verified_at = None /\ wi.signed_off_at = None /\ wi.done_at = None
            /\ OlderThan(wi.qa_started_at, ConfiguredDays("max_qa_days", 3))
      [] rule_code = "BLOCKED_NO_REASON" ->
            /\ wi.blocked_flag
            /\ \A i \in DOMAIN wi.blocked_reason : wi.blocked_reason[i] = " "
      [] rule_code = "PR_REQUIRED" ->
            /\ wi.item_type \in ConfiguredTypes("require_pr_for_types")
            /\ \E kw \in ConfiguredTypes("pr_required_when_status_contains") :
                  Contains(Lower(kw), Lower(wi.status))
            /\ Len(wi.linked_prs) = 0

RuleCodes == {"MISSING_POINTS", "STUCK_IN_DEV", "WAITING_FOR_QA",
              "STUCK_IN_QA", "BLOCKED_NO_REASON", "PR_REQUIRED"}

\* validate_board(hist.board) has just returned
JustValidated == hist.op = "validate" /\ hist.at = now

\* C9: when validate_board(board) returns, for every WorkItem of the board
\* and every rule of the battery a non-done ticket of
\* (board, item, rule_code) exists if and only if the item violates the rule
\* at that moment; in particular the ticket of an item that violates no
\* longer is done.
C9_TicketIffViolation ==
    JustValidated =>
        \A sid \in DOMAIN workitems : \A rc \in RuleCodes :
            workitems[sid].board = hist.board =>
                (Live(<<hist.board, sid, rc>>) # {} <=> Violates(rc, workitems[sid]))

\* C10: a validate_board(board) call that directly follows a call for the
\* same board, with items, config and clock unchanged, returns the same
\* count for every rule code, creates no ticket, resolves no ticket and
\* leaves every ticket's status unchanged.
C10_ValidateDeterministic ==
    [][(/\ hist.op = "validate" /\ hist'.op = "validate"
        /\ hist'.board = hist.board /\ hist'.at = hist.at)
       => /\ hist'.results = hist.results
          /\ Len(tickets') = Len(tickets)
          /\ \A i \in DOMAIN tickets :
                /\ tickets'[i].status = tickets[i].status
                /\ tickets'[i].resolved_at = tickets[i].resolved_at]_vars

\* a call repeated the previous one while the board had a violating item
\* with its ticket and a ticket resolved by an earlier run
C10_Witness ==
    /\ hist.op = "validate" /\ hist.again
    /\ hist.results["STUCK_IN_DEV"] = 1
    /\ Live(<<1, PA1, "STUCK_IN_DEV">>) # {}
    /\ \E i \in DOMAIN tickets : tickets[i].status = DONE

(***************************************************************************)
(* SLA escalation (etl/sla.py)                                             *)
(***************************************************************************)
Max(S) == CHOOSE x \in S : \A y \in S : y <= x

\* getattr(settings, "SLA_DEFAULTS", {}) or {}: the settings module sets none
SLA_DEFAULTS == [k \in {} |-> None]

\* sla._cfg(): root.get("sla") or {} of the active config document
sla_cfg(cfg) == IF Has(cfg, "sla") THEN cfg.sla ELSE [k \in {} |-> None]

\* int(v) succeeds
IntOk(v) == v # None /\ v # BadNumber

\* _hours_for_item(wi).  by_priority and by_type are lists of <<key, hours>>
\* in the iteration order of the dict; wi.meta is a dict with the keys
\* priority, Priority and labels at most.
_hours_for_itemMut(wi, cfg) ==
    LET c == sla_cfg(cfg)
        type_map == IF GetList(c, "by_type") # <<>> THEN c.by_type
                    ELSE GetList(SLA_DEFAULTS, "by_type")
        thits == {i \in DOMAIN type_map : Lower(type_map[i][1]) = Lower(wi.item_type)}
    IN  IF thits # {} THEN type_map[Max(thits)][2] ELSE 48
_hours_for_item(wi, cfg) ==
    LET c == sla_cfg(cfg)
        pri_map == IF GetList(c, "by_priority") # <<>> THEN c.by_priority
                   ELSE GetList(SLA_DEFAULTS, "by_priority")
        meta_priority ==
            Strip(IF GetText(wi.meta, "priority") # <<>> THEN wi.meta.priority
                  ELSE GetText(wi.meta, "Priority"))
        labels == GetList(wi.meta, "labels")
        lhits == {i \in DOMAIN labels :
                     Lower(labels[i]) \in {Lower(pri_map[k][1]) : k \in DOMAIN pri_map}}
        priority == IF meta_priority # <<>> THEN meta_priority
                    ELSE IF lhits # {} THEN labels[Min(lhits)] ELSE <<>>
        \* the first key equal to the priority whose value int() accepts
        phits == {i \in DOMAIN pri_map :
                     /\ priority # <<>>
                     /\ Lower(priority) = Lower(pri_map[i][1])
                     /\ IntOk(pri_map[i][2])}
        type_map == IF GetList(c, "by_type") # <<>> THEN c.by_type
                    ELSE GetList(SLA_DEFAULTS, "by_type")
        \* {k.lower(): v}: the last of the keys equal in lower case wins
        thits == {i \in DOMAIN type_map : Lower(type_map[i][1]) = Lower(wi.item_type)}
        blocked_hours == IF Has(c, "blocked_hours") THEN c.blocked_hours
                         ELSE IF Has(SLA_DEFAULTS, "blocked_hours")
                         THEN SLA_DEFAULTS.blocked_hours ELSE 48
    IN  IF phits # {} THEN pri_map[Min(phits)][2]
        ELSE IF thits # {} /\ IntOk(type_map[Max(thits)][2]) THEN type_map[Max(thits)][2]
        ELSE IF IntOk(blocked_hours) THEN blocked_hours
        ELSE 48

\* sla_check_blocked(board_id): [tickets, touched, err].  boards is the
\* queryset of line 61 (every board when board_id is falsy).  For the first
\* board, filter(Q(blocked_since__isnull=False) | Q(updated_at__gte=since))
\* resolves its lookups when it is called: WorkItem (metrics/models.py
\* 71-135) has no field updated_at, so the call raises FieldError before any
\* item is read; the loop of lines 72-91 is never entered and no ticket is
\* opened or resolved.
sla_check_blocked(ts, store, board_id) ==
    LET boards == IF board_id # None /\ board_id # 0
                  THEN {b \in Boards : b = board_id} ELSE Boards
    IN  IF boards = {} THEN [tickets |-> ts, touched |-> 0, err |-> FALSE]
        ELSE [tickets |-> ts, touched |-> 0, err |-> TRUE]

(***************************************************************************)
(* Specification SpecSla: Jira normalization runs, the clock and           *)
(* sla_check_blocked, one call at a time.                                  *)
(***************************************************************************)
SlaConfig ==
    [sla |-> [blocked_hours |-> 6,
              by_priority |-> <<<<<<"P", "1">>, 4>>>>,
              by_type |-> <<<<<<"B", "u", "g">>, 24>>>>]] @@ JiraConfig

\* the board_id arguments: None is every board, 3 is no board
SlaBoardIds == {None, 1, 2, 3}

InitSla ==
    /\ now = StartTime
    /\ tickets = <<>>
    /\ workitems = <<>>
    /\ config \in {JiraConfig, SlaConfig}
    /\ proc = NoProc
    /\ hist = NoOp

SlaCheckBlocked(board_id) ==
    LET out == sla_check_blocked(tickets, workitems, board_id)
    IN  /\ tickets' = out.tickets
        /\ hist' = [op |-> "sla", board_id |-> board_id, touched |-> out.touched,
                    err |-> out.err, at |-> now]
        /\ UNCHANGED <<now, workitems, config, proc>>

NextSla ==
    \/ TickN
    \/ \E r \in {<<1, <<Jira1>>>>, <<1, <<Jira2>>>>, <<1, <<Jira3>>>>, <<1, <<Jira4>>>>} :
          SyncJira(r[1], r[2])
    \/ \E board_id \in SlaBoardIds : SlaCheckBlocked(board_id)

SpecSla == InitSla /\ [][NextSla]_vars

(***************************************************************************)
(* Properties of SpecSla                                                   *)
(***************************************************************************)
\* the boards a call with this argument covers
SlaBoards(board_id) == IF board_id = None THEN Boards ELSE {board_id} \cap Boards

\* the SLA limit of a stored row; the normalizers write no priority and no
\* labels into meta
RowLimit(wi) ==
    _hours_for_item([item_type |-> wi.item_type, meta |-> [k \in {} |-> None]], config)

\* the start of the blocked time: blocked_since, else dev_started_at, else
\* created_at
BlockedStart(wi) ==
    IF wi.blocked_since # None THEN wi.blocked_since
    ELSE IF wi.dev_started_at # None THEN wi.dev_started_at ELSE wi.created_at

\* blocked, not closed, and blocked for more hours than the limit
OverSla(wi) ==
    /\ wi.blocked_flag /\ ~wi.closed
    /\ BlockedStart(wi) # None
    /\ now - BlockedStart(wi) > RowLimit(wi) * 3600

SlaKey(sid) == <<workitems[sid].board, sid, "BLOCKED_SLA">>

SlaExample ==
    [sla |-> [blocked_hours |-> 48,
              by_priority |-> <<<<<<"P", "1">>, 4>>>>,
              by_type |-> <<<<<<"b", "u", "g">>, 24>>>>]]
SlaConfigs ==
    {JiraConfig, SlaExample, SlaConfig,
     [sla |-> [blocked_hours |-> 72, by_type |-> <<<<<<"S", "t", "o", "r", "y">>, 36>>, <<<<"b", "u", "g">>, 24>>>>]],
     [sla |-> [by_priority |-> <<<<<<"P", "1">>, 4>>, <<<<"P", "2">>, 8>>>>]],
     [sla |-> [blocked_hours |-> 0, by_priority |-> <<<<<<"p", "2">>, 0>>>>]]}

SlaMetas ==
    {[k \in {} |-> None],
     [priority |-> <<"P", "1">>], [priority |-> <<" ", "p", "1", " ">>], [priority |-> <<"P", "9">>],
     [Priority |-> <<"P", "2">>],
     [labels |-> <<<<"u", "i">>, <<"p", "1">>>>], [labels |-> <<<<"u", "i">>>>],
     [priority |-> <<"P", "9">>, labels |-> <<<<"P", "1">>>>]}
SlaItems == [item_type : {STORY, BUG, TASK}, meta : SlaMetas]

InitSlaHours ==
    /\ now = StartTime
    /\ tickets = <<>>
    /\ workitems = <<>>
    /\ config \in SlaConfigs
    /\ proc = NoProc
    /\ hist = NoOp

HoursForItem(wi) ==
    /\ hist' = [op |-> "hours", wi |-> wi, limit |-> _hours_for_item(wi, config)]
    /\ UNCHANGED <<now, tickets, workitems, config, proc>>

NextSlaHours == \E wi \in SlaItems : HoursForItem(wi)

SpecSlaHours == InitSlaHours /\ [][NextSlaHours]_vars

(***************************************************************************)
(* Properties of SpecSlaHours                                              *)
(***************************************************************************)
\* the sla section of the active config
SlaSection == IF Has(config, "sla") THEN config.sla ELSE [k \in {} |-> None]

\* the priority of an item: meta.priority (or meta.Priority) without the
\* surrounding blanks, else any of its labels
Priorities(wi) ==
    LET p == Strip(IF GetText(wi.meta, "priority") # <<>> THEN wi.meta.priority
                   ELSE GetText(wi.meta, "Priority"))
    IN  IF p # <<>> THEN {p} ELSE Range(GetList(wi.meta, "labels"))

\* the by_priority values whose key is a priority of the item, and the
\* by_type values whose key is its item_type, in any letter case
PriorityHours(wi) ==
    LET m == GetList(SlaSection, "by_priority")
    IN  {m[i][2] : i \in {i \in DOMAIN m :
                             \E p \in Priorities(wi) : Lower(p) = Lower(m[i][1])}}
TypeHours(wi) ==
    LET m == GetList(SlaSection, "by_type")
    IN  {m[i][2] : i \in {i \in DOMAIN m : Lower(m[i][1]) = Lower(wi.item_type)}}
GlobalHours == IF Has(SlaSection, "blocked_hours") THEN SlaSection.blocked_hours ELSE 48

ExampleItem == [item_type |-> BUG, meta |-> [priority |-> <<"P", "1">>]]

\* C13: the limit _hours_for_item returns is the by_priority value of the
\* item's priority when there is one, otherwise the by_type value of its
\* item_type when there is one, otherwise the global blocked_hours (48 when
\* not configured); priority P1 -> 4, type bug -> 24, global 48 gives 4.
C13_PriorityThenTypeThenGlobal ==
    hist.op = "hours" =>
        /\ PriorityHours(hist.wi) # {} => hist.limit \in PriorityHours(hist.wi)
        /\ (PriorityHours(hist.wi) = {} /\ TypeHours(hist.wi) # {}) =>
               hist.limit \in TypeHours(hist.wi)
        /\ (PriorityHours(hist.wi) = {} /\ TypeHours(hist.wi) = {}) =>
               hist.limit = GlobalHours
        /\ (config = SlaExample /\ hist.wi = ExampleItem) => hist.limit = 4
C13_Witness ==
    /\ hist.op = "hours" /\ config = SlaExample /\ hist.wi = ExampleItem
    /\ hist.limit = 4
    /\ TypeHours(hist.wi) = {24} /\ GlobalHours = 48

(***************************************************************************)
(* Specification SpecSnapshot: validate_board executed rule by rule while  *)
(* the active config document is rewritten by another request.  Every      *)
(* rule calls _cfg(), which queries the active MappingVersion again.       *)
(***************************************************************************)
NoRun == [r |-> 0]

InitSnapshot ==
    /\ now = StartTime
    /\ tickets = <<>>
    /\ workitems = <<>>
    /\ config \in ValidateConfigs
    /\ proc = NoRun
    /\ hist = NoOp

\* normalization between two validate_board calls
SyncIdle(board, raw_items) == proc.r = 0 /\ SyncJira(board, raw_items)

\* validate_board(board) is entered: the queryset is built.  cfg0 records
\* the config document the first rule reads (the code keeps no such copy).
VBegin(board) ==
    /\ proc.r = 0
    /\ \E items \in Orders({sid \in DOMAIN workitems : workitems[sid].board = board}) :
          proc' = [r |-> 1, board |-> board, items |-> items, cfg0 |-> config,
                   results |-> <<>>]
    /\ hist' = [op |-> "begin"]
    /\ UNCHANGED <<now, tickets, workitems, config>>

\* results[code] = int(func(board, items)) for the next entry of ALL_RULES:
\* the rule reads its thresholds from the config active now
VRule ==
    /\ proc.r \in DOMAIN ALL_RULES
    /\ \E o \in RunRule(ALL_RULES[proc.r], tickets, proc.board, workitems,
                        proc.items, config, now) :
          /\ Len(o.ts) <= MaxRows
          /\ tickets' = o.ts
          /\ proc' = [proc EXCEPT !.r = @ + 1,
                                  !.cfg0 = IF proc.r = 1 THEN config ELSE @,
                                  !.results = (ALL_RULES[proc.r] :> o.count) @@ @]
    /\ hist' = [op |-> "rule"]
    /\ UNCHANGED <<now, workitems, config>>

\* return results
VReturn ==
    /\ proc.r = Len(ALL_RULES) + 1
    /\ proc' = NoRun
    /\ hist' = [op |-> "validate", results |-> proc.results]
    /\ UNCHANGED <<now, tickets, workitems, config>>

\* another request commits a new config document for the active
\* MappingVersion (MappingVersionViewSet update) while the invocation runs
ConfigWrite ==
    /\ proc.r \in DOMAIN ALL_RULES
    /\ config' \in ValidateConfigs \ {config}
    /\ UNCHANGED <<now, tickets, workitems, proc, hist>>

NextSnapshot ==
    \/ TickN
    \/ \E r \in {<<1, <<Jira1>>>>, <<1, <<Jira4>>>>} : SyncIdle(r[1], r[2])
    \/ VBegin(1)
    \/ VRule
    \/ VReturn
    \/ ConfigWrite

SpecSnapshot == InitSnapshot /\ [][NextSnapshot]_vars

\* C14: every rule of one validate_board invocation is evaluated against
\* one snapshot of the active config, the one its first rule read: the
\* tickets and the count a rule leaves are those it leaves under that
\* snapshot, whatever is committed to the active config while the
\* invocation runs.
C14_OneConfigSnapshot ==
    [][(proc.r \in DOMAIN ALL_RULES /\ proc'.r = proc.r + 1) =>
          [ts |-> tickets', count |-> proc'.results[ALL_RULES[proc.r]]]
              \in RunRule(ALL_RULES[proc.r], tickets, proc.board, workitems,
                          proc.items, proc'.cfg0, now)]_vars

(***************************************************************************)
(* Specification SpecMapping: the MappingVersion table (etl/models.py)     *)
(* written through MappingVersionViewSet, a plain ModelViewSet.  Here      *)
(* config holds the table: a sequence of rows, pk = index.                 *)
(***************************************************************************)
Versions == {"v1", "v2", "v3"}

InitMapping ==
    /\ now = StartTime
    /\ tickets = <<>>
    /\ workitems = <<>>
    /\ config = <<>>
    /\ proc = NoProc
    /\ hist = NoOp

\* POST: serializer.save() inserts the row as posted; version is unique,
\* active is True unless the request says otherwise; no other row is touched
CreateMapping(version, active, document) ==
    /\ Len(config) < MaxVersions
    /\ \A i \in DOMAIN config : config[i].version # version
    /\ config' = Append(config, [version |-> version, active |-> active,
                                 config |-> document, created_at |-> now])
    /\ hist' = [op |-> "create"]
    /\ UNCHANGED <<now, tickets, workitems, proc>>

\* PUT / PATCH of row pk: the posted fields are written to that row only
UpdateMapping(pk, active, document) ==
    /\ pk \in DOMAIN config
    /\ config' = [config EXCEPT ![pk].active = active, ![pk].config = document]
    /\ hist' = [op |-> "update"]
    /\ UNCHANGED <<now, tickets, workitems, proc>>

NextMapping ==
    \/ TickN
    \/ \E version \in Versions, active \in BOOLEAN, document \in ValidateConfigs :
          CreateMapping(version, active, document)
    \/ \E pk \in 1..MaxVersions, active \in BOOLEAN, document \in ValidateConfigs :
          UpdateMapping(pk, active, document)

SpecMapping == InitMapping /\ [][NextMapping]_vars

\* C15: after any sequence of MappingVersion create and update operations
\* at most one row has active = true.
C15_AtMostOneActive ==
    (hist.op \in {"create", "update"}) =>
        Cardinality({i \in DOMAIN config : config[i].active}) <= 1

(***************************************************************************)
(* Specification SpecStatusTime: the Jira normalizer run on an issue whose *)
(* changelog is any short list of entries, under a status_map.             *)
(***************************************************************************)
StatusConfigs ==
    {[jira |-> [status_map |-> [dev_started |-> <<<<"I", "n", " ", "P", "r", "o", "g", "r", "e", "s", "s">>>>,
                                ready_for_qa |-> <<<<"I", "n", " ", "R", "e", "v", "i", "e", "w">>>>]]],
     [jira |-> [status_map |-> [dev_started |-> <<<<"D", "o", "i", "n", "g">>, <<"I", "N", " ", "P", "R", "O", "G", "R", "E", "S", "S">>>>,
                                dev_done |-> <<<<"I", "n", " ", "R", "e", "v", "i", "e", "w">>>>,
                                qa_started |-> <<<<"Q", "A">>>>]]]}

\* to In Progress at day 6 (T1), to In Review at day 7 (T2), to "in
\* progress" at day 5 after an assignee change, an assignee change at day 4,
\* to In Review at a time to_dt cannot read
Histories ==
    {[created |-> 6 * Day, items |-> <<[field |-> "status", toString |-> <<"I", "n", " ", "P", "r", "o", "g", "r", "e", "s", "s">>]>>],
     [created |-> 7 * Day, items |-> <<[field |-> "status", toString |-> <<"I", "n", " ", "R", "e", "v", "i", "e", "w">>]>>],
     [created |-> 5 * Day, items |-> <<[field |-> "assignee", toString |-> <<"I", "n", " ", "R", "e", "v", "i", "e", "w">>],
                                       [field |-> "status", toString |-> <<"i", "n", " ", "p", "r", "o", "g", "r", "e", "s", "s">>]>>],
     [created |-> 4 * Day, items |-> <<[field |-> "assignee", toString |-> <<"I", "n", " ", "P", "r", "o", "g", "r", "e", "s", "s">>]>>],
     [created |-> None, items |-> <<[field |-> "status", toString |-> <<"I", "n", " ", "R", "e", "v", "i", "e", "w">>]>>]}

\* the changelogs: lists of distinct entries in any order
Changelogs ==
    UNION {{cl \in [1..n -> Histories] : \A i, j \in 1..n : cl[i] = cl[j] => i = j} :
             n \in 0..MaxHistories}

InitStatusTime ==
    /\ now = StartTime
    /\ tickets = <<>>
    /\ workitems = <<>>
    /\ config \in StatusConfigs
    /\ proc = NoProc
    /\ hist = NoOp

NormalizeChangelog(cl) ==
    LET rp == RawJira([key |-> PA1, changelog |-> cl,
                       fields |-> [summary |-> <<"L", "o", "g", "i", "n">>, created |-> 3 * Day]])
    IN  /\ workitems' = JiraNormalize(workitems, <<rp>>, 1, config, now).store
        /\ hist' = [op |-> "changelog", changelog |-> cl]
        /\ UNCHANGED <<now, tickets, config, proc>>

NextStatusTime == \E cl \in Changelogs : NormalizeChangelog(cl)

SpecStatusTime == InitStatusTime /\ [][NextStatusTime]_vars

(***************************************************************************)
(* Properties of SpecStatusTime                                            *)
(***************************************************************************)
\* the canonical steps and their columns
StepColumn ==
    [dev_started |-> "dev_started_at", dev_done |-> "dev_done_at",
     ready_for_qa |-> "ready_for_qa_at", qa_started |-> "qa_started_at",
     qa_verified |-> "qa_verified_at", signed_off |-> "signed_off_at"]

\* the creation times of the entries with a status transition to one of names
TransitionTimes(cl, names) ==
    {cl[h].created : h \in {h \in DOMAIN cl :
        /\ cl[h].created # None
        /\ \E i \in DOMAIN cl[h].items : \E n \in DOMAIN names :
              /\ cl[h].items[i].field = "status"
              /\ Lower(cl[h].items[i].toString) = Lower(names[n])}}

RECURSIVE JiraNormalizeAborted(_, _, _, _, _)
JiraNormalizeAborted(store, raw_items, board, cfg, t) ==
    IF raw_items = <<>> THEN {store}
    ELSE LET rp == Head(raw_items)
             parent == IF rp.source = JIRA /\ rp.object_type = "issue"
                          /\ JiraKey(rp.payload) # <<>>
                       THEN upsert_parent(store, board, JIRA,
                                          GetText(rp.payload.fields, "parent"), t).store
                       ELSE store
         IN  {store, parent} \cup
             UNION {IF one.err THEN {}
                    ELSE JiraNormalizeAborted(one.store, Tail(raw_items), board, cfg, t) :
                      one \in {JiraNormalizeOne(store, rp, board, cfg, t)}}

\* the ticket tables validate_board can leave when it is killed: the rules
\* before rule r done, rule r done for the first j items
RECURSIVE RunRulesAborted(_, _, _, _, _, _, _)
RunRulesAborted(ts, board, store, items, cfg, t, r) ==
    IF r > Len(ALL_RULES) THEN {ts}
    ELSE {o.ts : o \in UNION {RunRule(ALL_RULES[r], ts, board, store,
                                      SubSeq(items, 1, j), cfg, t) :
                                j \in 0..(Len(items) - 1)}}
         \cup UNION {RunRulesAborted(o.ts, board, store, items, cfg, t, r + 1) :
                       o \in RunRule(ALL_RULES[r], ts, board, store, items, cfg, t)}
validate_board_aborted(ts, board, store, cfg, t) ==
    {ts} \cup
    UNION {RunRulesAborted(ts, board, store, items, cfg, t, 1) :
             items \in Orders({sid \in DOMAIN store : store[sid].board = board})}

\* the batches of etl_normalize
RerunBatches == {<<Jira2, Jira5>>, <<Jira1>>, <<Jira4>>}

InitRerun ==
    /\ now = StartTime
    /\ tickets = <<>>
    /\ workitems = <<>>
    /\ config = ValidatorTypes
    /\ proc = NoProc
    /\ hist = NoOp

\* etl_normalize is killed; hist keeps the input and the tables before the run
AbortNormalize(raw_items) ==
    /\ hist.op # "aborted"
    /\ workitems' \in JiraNormalizeAborted(workitems, raw_items, 1, config, now)
    /\ hist' = [op |-> "aborted", what |-> "normalize", raw_items |-> raw_items,
                workitems0 |-> workitems, tickets0 |-> tickets]
    /\ UNCHANGED <<now, tickets, config, proc>>

\* the task is delivered again and runs to completion
RerunNormalize ==
    /\ hist.op = "aborted" /\ hist.what = "normalize"
    /\ \E res \in {JiraNormalize(workitems, hist.raw_items, 1, config, now)} :
          /\ ~res.err
          /\ workitems' = res.store
    /\ hist' = [hist EXCEPT !.op = "rerun"]
    /\ UNCHANGED <<now, tickets, config, proc>>

\* etl_validate is killed
AbortValidate ==
    /\ hist.op # "aborted"
    /\ tickets' \in validate_board_aborted(tickets, 1, workitems, config, now)
    /\ Len(tickets') <= MaxRows
    /\ hist' = [op |-> "aborted", what |-> "validate", raw_items |-> <<>>,
                workitems0 |-> workitems, tickets0 |-> tickets]
    /\ UNCHANGED <<now, workitems, config, proc>>

RerunValidate ==
    /\ hist.op = "aborted" /\ hist.what = "validate"
    /\ \E out \in validate_board(tickets, 1, workitems, config, now) :
          /\ Len(out.tickets) <= MaxRows
          /\ tickets' = out.tickets
    /\ hist' = [hist EXCEPT !.op = "rerun"]
    /\ UNCHANGED <<now, workitems, config, proc>>

NextRerun ==
    \/ TickN
    \/ \E raw_items \in RerunBatches : AbortNormalize(raw_items)
    \/ RerunNormalize
    \/ AbortValidate
    \/ RerunValidate

SpecRerun == InitRerun /\ [][NextRerun]_vars

(***************************************************************************)
(* Properties of SpecRerun                                                 *)
(***************************************************************************)
\* the columns stamped from the wall clock
ClockColumns == {"last_synced", "blocked_since"}

\* two stores with the same rows, equal in every column but the clock
\* stamps; blocked_since is set in both or in neither
SameRows(s1, s2) ==
    /\ DOMAIN s1 = DOMAIN s2
    /\ \A sid \in DOMAIN s1 :
          /\ \A f \in DOMAIN s1[sid] \ ClockColumns : s1[sid][f] = s2[sid][f]
          /\ s1[sid].blocked_since = None <=> s2[sid].blocked_since = None

\* two ticket tables with the same number of tickets of every key and status
SameStatuses(t1, t2) ==
    \A k \in {KeyOf(t1[i]) : i \in DOMAIN t1} \cup {KeyOf(t2[i]) : i \in DOMAIN t2} :
        \A s \in {OPEN, IN_PROGRESS, DONE} :
            Cardinality({i \in DOMAIN t1 : KeyOf(t1[i]) = k /\ t1[i].status = s})
                = Cardinality({i \in DOMAIN t2 : KeyOf(t2[i]) = k /\ t2[i].status = s})

\* C20: when a normalize or validate_board run was killed after some of its
\* writes and has been run again to completion on the same input, no key
\* has two non-done tickets, the store has the rows of a single
\* uninterrupted run with the same values in every column but the clock
\* stamps (one row per source_id), and the tickets have the statuses a
\* single uninterrupted run leaves.
C20_RerunAfterAbort ==
    hist.op = "rerun" =>
        /\ \A k \in AllKeys : Cardinality(Live(k)) <= 1
        /\ hist.what = "normalize" =>
              SameRows(workitems,
                       JiraNormalize(hist.workitems0, hist.raw_items, 1, config, now).store)
        /\ hist.what = "validate" =>
              \E ref \in validate_board(hist.tickets0, 1, workitems, config, now) :
                  SameStatuses(tickets, ref.tickets)
\* the killed run had opened one ticket, the second run, later, kept it and
\* opened another
C20_Witness ==
    /\ hist.op = "rerun" /\ hist.what = "validate"
    /\ hist.tickets0 = <<>>
    /\ \E i, j \in DOMAIN tickets :
          /\ tickets[i].status = OPEN /\ tickets[j].status = OPEN
          /\ tickets[i].created_at < tickets[j].created_at
          /\ tickets[j].created_at = now
\* the killed run had stored a blocked PA-1, the second run, later, kept it
C20_WitnessNormalize ==
    /\ hist.op = "rerun" /\ hist.what = "normalize"
    /\ PA1 \in DOMAIN workitems /\ PA1 \notin DOMAIN hist.workitems0
    /\ workitems[PA1].last_synced = now /\ workitems[PA1].blocked_since < now
    /\ workitems[PA1].blocked_since # None

(***************************************************************************)
(* Mapping validator (etl/mapping_validator.py)                            *)
(*                                                                         *)
(* A JSON value is a record [t, v]: t is its Python type and v its value;  *)
(* the v of a dict is the sequence of its <<key, value>> pairs in          *)
(* insertion order, keys are texts.                                        *)
(***************************************************************************)
JStr(s)  == [t |-> "str", v |-> s]
JNum(n)  == [t |-> "num", v |-> <<n>>]
JNull    == [t |-> "null", v |-> <<>>]
JList(l) == [t |-> "list", v |-> l]
JDict(d) == [t |-> "dict", v |-> d]

\* bool(x)
Truthy(x) ==
    CASE x.t = "null" -> FALSE
      [] x.t = "num"  -> \E i \in DOMAIN x.v : x.v[i] # 0
      [] OTHER        -> x.v # <<>>

\* x or {}
OrEmpty(x) == IF Truthy(x) THEN x ELSE JDict(<<>>)

\* k in d and d.get(k) of a dict
DHas(d, k) == \E i \in DOMAIN d.v : d.v[i][1] = k
DGet(d, k) == IF DHas(d, k) THEN d.v[CHOOSE i \in DOMAIN d.v : d.v[i][1] = k][2]
              ELSE JNull

\* k in x: a key of a dict, an element of a list, a part of a str; any
\* other x raises TypeError
CanIn(x) == x.t \in {"dict", "list", "str"}
PyIn(k, x) ==
    CASE x.t = "dict" -> DHas(x, k)
      [] x.t = "list" -> \E i \in DOMAIN x.v : x.v[i].t = "str" /\ x.v[i].v = k
      [] x.t = "str"  -> Contains(k, x.v)
      [] OTHER        -> FALSE

REQUIRED_KEYS ==
    << <<<<"j", "i", "r", "a">>, <<<<"p", "o", "i", "n", "t", "s", "_", "f", "i", "e", "l", "d">>, <<"s", "t", "a", "t", "u", "s", "_", "m", "a", "p">>>> >>,
       <<<<"c", "l", "i", "c", "k", "u", "p">>, <<<<"p", "o", "i", "n", "t", "s", "_", "f", "i", "e", "l", "d", "_", "n", "a", "m", "e">>>> >>,
       <<<<"a", "z", "u", "r", "e">>, <<<<"p", "o", "i", "n", "t", "s", "_", "f", "i", "e", "l", "d">>>> >>,
       <<<<"g", "i", "t", "h", "u", "b">>, <<<<"l", "i", "n", "k", "_", "p", "a", "t", "t", "e", "r", "n", "s">>>> >> >>

CANONICAL_STEPS ==
    <<<<"d", "e", "v", "_", "s", "t", "a", "r", "t", "e", "d">>, <<"d", "e", "v", "_", "d", "o", "n", "e">>, <<"r", "e", "a", "d", "y", "_", "f", "o", "r", "_", "q", "a">>, <<"q", "a", "_", "s", "t", "a", "r", "t", "e", "d">>, <<"q", "a", "_", "v", "e", "r", "i", "f", "i", "e", "d">>,
      <<"s", "i", "g", "n", "e", "d", "_", "o", "f", "f">>, <<"r", "e", "a", "d", "y", "_", "f", "o", "r", "_", "u", "a", "t">>, <<"d", "e", "p", "l", "o", "y", "e", "d", "_", "u", "a", "t">>, <<"d", "o", "n", "e">>>>

\* re.compile(pat) succeeds; for patterns of letters, digits, "-" and
\* parentheses it fails exactly when the parentheses do not balance
RECURSIVE ParensOk(_, _)
ParensOk(pat, depth) ==
    IF pat = <<>> THEN depth = 0
    ELSE IF Head(pat) = "(" THEN ParensOk(Tail(pat), depth + 1)
    ELSE IF Head(pat) = ")" THEN depth > 0 /\ ParensOk(Tail(pat), depth - 1)
    ELSE ParensOk(Tail(pat), depth)
_compile_regex(pat) == ParensOk(pat, 0)

_nonempty_list(val) ==
    /\ val.t = "list"
    /\ \A i \in DOMAIN val.v : val.v[i].t = "str" /\ Strip(val.v[i].v) # <<>>

\* the lists being built, the seen dict of the duplicate detection and the
\* exception raised, "" while there is none
NoProblems == [errors |-> <<>>, warnings |-> <<>>, seen |-> <<>>, exc |-> ""]
Problem(path, msg) == [path |-> path, msg |-> msg]
AddError(acc, path, msg) == [acc EXCEPT !.errors = Append(@, Problem(path, msg))]
AddWarning(acc, path, msg) == [acc EXCEPT !.warnings = Append(@, Problem(path, msg))]
Raise(acc, exc) == [acc EXCEPT !.exc = exc]
Dot(a, b) == a \o <<".">> \o b

\* lines 46-48
RECURSIVE MissingKeys(_, _, _, _)
MissingKeys(section, sec, keys, acc) ==
    IF keys = <<>> THEN acc
    ELSE MissingKeys(section, sec, Tail(keys),
                     IF PyIn(Head(keys), sec) THEN acc
                     ELSE AddError(acc, Dot(section, Head(keys)), "Missing key"))

\* lines 41-48: presence of the sections and of their keys
RECURSIVE Presence(_, _, _)
Presence(cfg, required, acc) ==
    IF required = <<>> \/ acc.exc # "" THEN acc
    ELSE IF ~CanIn(cfg) THEN Raise(acc, "TypeError")
    ELSE IF ~PyIn(required[1][1], cfg)
         THEN Presence(cfg, Tail(required),
                       AddError(acc, required[1][1], "Missing section"))
    ELSE IF cfg.t # "dict" THEN Raise(acc, "AttributeError")
    ELSE IF ~CanIn(OrEmpty(DGet(cfg, required[1][1]))) THEN Raise(acc, "TypeError")
    ELSE Presence(cfg, Tail(required),
                  MissingKeys(required[1][1], OrEmpty(DGet(cfg, required[1][1])),
                              required[1][2], acc))

\* lines 51-52, 83-84, 88-89: the points field of a section is a str
PointsField(cfg, section, key, acc) ==
    IF acc.exc # "" THEN acc
    ELSE IF cfg.t # "dict" THEN Raise(acc, "AttributeError")
    ELSE IF ~CanIn(OrEmpty(DGet(cfg, section))) THEN Raise(acc, "TypeError")
    ELSE IF ~PyIn(key, OrEmpty(DGet(cfg, section))) THEN acc
    ELSE IF OrEmpty(DGet(cfg, section)).t # "dict" THEN Raise(acc, "AttributeError")
    ELSE IF DGet(DGet(cfg, section), key).t # "str"
         THEN AddError(acc, Dot(section, key), "Must be a string")
    ELSE acc

\* lines 58-64: every canonical step is a non-empty list of names
RECURSIVE CanonicalSteps(_, _, _)
CanonicalSteps(status_map, steps, acc) ==
    IF steps = <<>> THEN acc
    ELSE CanonicalSteps(status_map, Tail(steps),
            IF DGet(status_map, Head(steps)).t = "null"
            THEN AddWarning(acc, Dot(Dot(<<"j", "i", "r", "a">>, <<"s", "t", "a", "t", "u", "s", "_", "m", "a", "p">>), Head(steps)),
                            "Not mapped")
            ELSE IF ~_nonempty_list(DGet(status_map, Head(steps)))
            THEN AddError(acc, Dot(Dot(<<"j", "i", "r", "a">>, <<"s", "t", "a", "t", "u", "s", "_", "m", "a", "p">>), Head(steps)),
                          "Must be a non-empty list of status names")
            ELSE acc)

\* seen.get(key) of the duplicate detection: the step or <<>>
SeenStep(seen, key) ==
    IF \E i \in DOMAIN seen : seen[i][1] = key
    THEN seen[CHOOSE i \in DOMAIN seen : seen[i][1] = key][2]
    ELSE <<>>

\* lines 71-79: the names of one step; a name that is not a str has no
\* lower()
RECURSIVE StatusNames(_, _, _)
StatusNames(step, arr, acc) ==
    IF arr = <<>> \/ acc.exc # "" THEN acc
    ELSE IF Head(arr).t # "str" THEN Raise(acc, "AttributeError")
    ELSE IF Strip(Lower(Head(arr).v)) = <<>>
         THEN StatusNames(step, Tail(arr),
                          AddError(acc, Dot(Dot(<<"j", "i", "r", "a">>, <<"s", "t", "a", "t", "u", "s", "_", "m", "a", "p">>), step),
                                   "Empty status string"))
    ELSE IF SeenStep(acc.seen, Strip(Lower(Head(arr).v))) \notin {<<>>, step}
         THEN StatusNames(step, Tail(arr),
                          AddWarning(acc, Dot(<<"j", "i", "r", "a">>, <<"s", "t", "a", "t", "u", "s", "_", "m", "a", "p">>),
                                     "Status appears in multiple steps"))
    ELSE StatusNames(step, Tail(arr),
                     IF SeenStep(acc.seen, Strip(Lower(Head(arr).v))) = step THEN acc
                     ELSE [acc EXCEPT !.seen =
                               Append(@, <<Strip(Lower(Head(arr).v)), step>>)])

\* lines 66-79: duplicates across the steps, in the order of the dict
RECURSIVE StatusItems(_, _)
StatusItems(items, acc) ==
    IF items = <<>> \/ acc.exc # "" THEN acc
    ELSE IF items[1][2].t # "list"
         THEN StatusItems(Tail(items),
                          AddError(acc, Dot(Dot(<<"j", "i", "r", "a">>, <<"s", "t", "a", "t", "u", "s", "_", "m", "a", "p">>), items[1][1]),
                                   "Must be a list"))
    ELSE StatusItems(Tail(items), StatusNames(items[1][1], items[1][2].v, acc))

\* lines 53-79
StatusMap(jira, acc) ==
    IF acc.exc # "" THEN acc
    ELSE IF jira.t # "dict" THEN Raise(acc, "AttributeError")
    ELSE IF OrEmpty(DGet(jira, <<"s", "t", "a", "t", "u", "s", "_", "m", "a", "p">>)).t # "dict"
         THEN AddError(acc, Dot(<<"j", "i", "r", "a">>, <<"s", "t", "a", "t", "u", "s", "_", "m", "a", "p">>), "Must be an object of arrays")
    ELSE StatusItems(OrEmpty(DGet(jira, <<"s", "t", "a", "t", "u", "s", "_", "m", "a", "p">>)).v,
                     CanonicalSteps(OrEmpty(DGet(jira, <<"s", "t", "a", "t", "u", "s", "_", "m", "a", "p">>)),
                                    CANONICAL_STEPS, acc))

\* lines 97-103
RECURSIVE LinkPatterns(_, _)
LinkPatterns(items, acc) ==
    IF items = <<>> THEN acc
    ELSE LinkPatterns(Tail(items),
            IF items[1][2].t # "str"
            THEN AddError(acc, Dot(Dot(<<"g", "i", "t", "h", "u", "b">>, <<"l", "i", "n", "k", "_", "p", "a", "t", "t", "e", "r", "n", "s">>), items[1][1]),
                          "Must be a regex string")
            ELSE IF ~_compile_regex(items[1][2].v)
            THEN AddError(acc, Dot(Dot(<<"g", "i", "t", "h", "u", "b">>, <<"l", "i", "n", "k", "_", "p", "a", "t", "t", "e", "r", "n", "s">>), items[1][1]),
                          "Invalid regex")
            ELSE acc)

\* lines 92-103
Github(cfg, acc) ==
    IF acc.exc # "" THEN acc
    ELSE IF OrEmpty(DGet(cfg, <<"g", "i", "t", "h", "u", "b">>)).t # "dict" THEN Raise(acc, "AttributeError")
    ELSE IF OrEmpty(DGet(DGet(cfg, <<"g", "i", "t", "h", "u", "b">>), <<"l", "i", "n", "k", "_", "p", "a", "t", "t", "e", "r", "n", "s">>)).t # "dict"
         THEN AddError(acc, Dot(<<"g", "i", "t", "h", "u", "b">>, <<"l", "i", "n", "k", "_", "p", "a", "t", "t", "e", "r", "n", "s">>), "Must be an object")
    ELSE LinkPatterns(OrEmpty(DGet(DGet(cfg, <<"g", "i", "t", "h", "u", "b">>), <<"l", "i", "n", "k", "_", "p", "a", "t", "t", "e", "r", "n", "s">>)).v, acc)

ThresholdKeys ==
    <<<<"m", "a", "x", "_", "d", "e", "v", "_", "d", "a", "y", "s", "_", "w", "i", "t", "h", "o", "u", "t", "_", "p", "r", "o", "g", "r", "e", "s", "s">>, <<"m", "a", "x", "_", "r", "e", "a", "d", "y", "_", "f", "o", "r", "_", "q", "a", "_", "d", "a", "y", "s">>, <<"m", "a", "x", "_", "q", "a", "_", "d", "a", "y", "s">>>>

\* lines 111-115
RECURSIVE Thresholds(_, _, _)
Thresholds(validator, keys, acc) ==
    IF keys = <<>> THEN acc
    ELSE Thresholds(validator, Tail(keys),
            IF DHas(validator, Head(keys))
               /\ (\/ DGet(validator, Head(keys)).t # "num"
                   \/ DGet(validator, Head(keys)).v[1] < 0)
            THEN AddError(acc, Dot(<<"v", "a", "l", "i", "d", "a", "t", "o", "r">>, Head(keys)),
                          "Must be a non-negative number")
            ELSE acc)

\* lines 106-115
Validator(cfg, acc) ==
    IF acc.exc # "" THEN acc
    ELSE IF DGet(cfg, <<"v", "a", "l", "i", "d", "a", "t", "o", "r">>).t \notin {"null", "dict"}
         THEN AddError(acc, <<"v", "a", "l", "i", "d", "a", "t", "o", "r">>, "Must be an object with numeric thresholds")
    ELSE Thresholds(OrEmpty(DGet(cfg, <<"v", "a", "l", "i", "d", "a", "t", "o", "r">>)), ThresholdKeys, acc)

Checked(cfg) ==
    Validator(cfg,
      Github(cfg,
        PointsField(cfg, <<"a", "z", "u", "r", "e">>, <<"p", "o", "i", "n", "t", "s", "_", "f", "i", "e", "l", "d">>,
          PointsField(cfg, <<"c", "l", "i", "c", "k", "u", "p">>, <<"p", "o", "i", "n", "t", "s", "_", "f", "i", "e", "l", "d", "_", "n", "a", "m", "e">>,
            StatusMap(OrEmpty(DGet(cfg, <<"j", "i", "r", "a">>)),
              PointsField(cfg, <<"j", "i", "r", "a">>, <<"p", "o", "i", "n", "t", "s", "_", "f", "i", "e", "l", "d">>,
                Presence(cfg, REQUIRED_KEYS, NoProblems)))))))

\* the result dict, or the exception that left the function
Outcome(cfg, acc, ok) ==
    IF acc.exc # ""
    THEN [errors |-> <<>>, warnings |-> <<>>, exc |-> acc.exc, ok |-> FALSE,
          raised |-> TRUE, normalized |-> cfg]
    ELSE [errors |-> acc.errors, warnings |-> acc.warnings, exc |-> "", ok |-> ok,
          raised |-> FALSE, normalized |-> cfg]
ReturnedMut(cfg, acc) == Outcome(cfg, acc, Len(acc.errors) = 0 /\ Len(acc.warnings) = 0)
\* lines 117-118
Returned(cfg, acc) == Outcome(cfg, acc, Len(acc.errors) = 0)

validate_mapping_config(cfg) == Returned(OrEmpty(cfg), Checked(OrEmpty(cfg)))

(***************************************************************************)
(* SpecMapCheck: MappingMatrixValidateView.post (etl/views.py) on a set of *)
(* config documents.  config is the config of the active MappingVersion,   *)
(* NoMapping when no version is active.                                    *)
(***************************************************************************)
NoMapping == [t |-> "none", v |-> <<>>]

\* one key of a document: absent, or one of the values
Entry(key, values) == {<<>>} \cup {<< <<key, val>> >> : val \in values}

GoodStatusMap ==
    JDict(<< <<<<"d", "e", "v", "_", "s", "t", "a", "r", "t", "e", "d">>, JList(<<JStr(<<"I", "n", " ", "P", "r", "o", "g", "r", "e", "s", "s">>)>>)>>,
             <<<<"d", "o", "n", "e">>, JList(<<JStr(<<"D", "o", "n", "e">>), JStr(<<"C", "l", "o", "s", "e", "d">>)>>)>> >>)
StatusMaps ==
    { GoodStatusMap,
      JDict(<< <<<<"d", "o", "n", "e">>, JList(<<JStr(<<"D", "o", "n", "e">>), JNum(7)>>)>> >>),
      JDict(<< <<<<"d", "o", "n", "e">>, JList(<<JStr(<<" ">>)>>)>> >>),
      JDict(<< <<<<"d", "o", "n", "e">>, JStr(<<"D", "o", "n", "e">>)>> >>),
      JDict(<< <<<<"d", "o", "n", "e">>, JList(<<JStr(<<"D", "o", "n", "e">>)>>)>>,
               <<<<"s", "i", "g", "n", "e", "d", "_", "o", "f", "f">>, JList(<<JStr(<<"d", "o", "n", "e", " ">>)>>)>> >>),
      JDict(<< <<<<"r", "e", "v", "i", "e", "w">>, JList(<<JNull>>)>> >>),
      JDict(<< <<<<"d", "e", "v", "_", "s", "t", "a", "r", "t", "e", "d">>, JList(<<JStr(<<"I", "n", " ", "P", "r", "o", "g", "r", "e", "s", "s">>)>>)>>,
               <<<<"d", "o", "n", "e">>, JList(<<>>)>> >>),
      JList(<<JStr(<<"D", "o", "n", "e">>)>>),
      JNull }
JiraSections ==
    {JDict(<< <<<<"p", "o", "i", "n", "t", "s", "_", "f", "i", "e", "l", "d">>, JStr(<<"c", "u", "s", "t", "o", "m", "f", "i", "e", "l", "d", "_", "1", "0", "0", "1", "6">>)>>, <<<<"s", "t", "a", "t", "u", "s", "_", "m", "a", "p">>, m>> >>) :
       m \in StatusMaps}
    \cup { JDict(<< <<<<"p", "o", "i", "n", "t", "s", "_", "f", "i", "e", "l", "d">>, JNum(10016)>>, <<<<"s", "t", "a", "t", "u", "s", "_", "m", "a", "p">>, GoodStatusMap>> >>),
           JDict(<< <<<<"s", "t", "a", "t", "u", "s", "_", "m", "a", "p">>, GoodStatusMap>> >>),
           JStr(<<"p", "o", "i", "n", "t", "s", "_", "f", "i", "e", "l", "d">>), JList(<<JStr(<<"s", "t", "a", "t", "u", "s", "_", "m", "a", "p">>)>>), JNum(1), JNull }
ClickUpSections ==
    { JDict(<< <<<<"p", "o", "i", "n", "t", "s", "_", "f", "i", "e", "l", "d", "_", "n", "a", "m", "e">>, JStr(<<"S", "t", "o", "r", "y", " ", "P", "o", "i", "n", "t", "s">>)>> >>),
      JDict(<< <<<<"p", "o", "i", "n", "t", "s", "_", "f", "i", "e", "l", "d", "_", "n", "a", "m", "e">>, JNum(3)>> >>),
      JStr(<<"p", "o", "i", "n", "t", "s", "_", "f", "i", "e", "l", "d", "_", "n", "a", "m", "e">>), JStr(<<"p", "o", "i", "n", "t", "s">>), JNum(1) }
AzureSections ==
    { JDict(<< <<<<"p", "o", "i", "n", "t", "s", "_", "f", "i", "e", "l", "d">>, JStr(<<"S", "t", "o", "r", "y", "P", "o", "i", "n", "t", "s">>)>> >>),
      JList(<<JStr(<<"p", "o", "i", "n", "t", "s", "_", "f", "i", "e", "l", "d">>)>>) }
GithubSections ==
    { JDict(<< <<<<"l", "i", "n", "k", "_", "p", "a", "t", "t", "e", "r", "n", "s">>, JDict(<< <<<<"j", "i", "r", "a">>, JStr(<<"(", "P", "A", "-", "1", ")">>)>> >>)>> >>),
      JDict(<< <<<<"l", "i", "n", "k", "_", "p", "a", "t", "t", "e", "r", "n", "s">>, JDict(<< <<<<"j", "i", "r", "a">>, JStr(<<"(", "P", "A", "-", "1">>)>> >>)>> >>),
      JDict(<< <<<<"l", "i", "n", "k", "_", "p", "a", "t", "t", "e", "r", "n", "s">>, JDict(<< <<<<"j", "i", "r", "a">>, JNum(1)>> >>)>> >>),
      JDict(<< <<<<"l", "i", "n", "k", "_", "p", "a", "t", "t", "e", "r", "n", "s">>, JList(<<JStr(<<"P", "A">>)>>)>> >>),
      JStr(<<"P", "A">>) }
ValidatorSections ==
    { JDict(<< <<<<"m", "a", "x", "_", "q", "a", "_", "d", "a", "y", "s">>, JNum(0)>> >>),
      JDict(<< <<<<"m", "a", "x", "_", "q", "a", "_", "d", "a", "y", "s">>, JNum(-1)>> >>),
      JDict(<< <<<<"m", "a", "x", "_", "d", "e", "v", "_", "d", "a", "y", "s", "_", "w", "i", "t", "h", "o", "u", "t", "_", "p", "r", "o", "g", "r", "e", "s", "s">>, JStr(<<"4">>)>> >>),
      JNum(3), JNull }

GoodJira ==
    JDict(<< <<<<"p", "o", "i", "n", "t", "s", "_", "f", "i", "e", "l", "d">>, JStr(<<"c", "u", "s", "t", "o", "m", "f", "i", "e", "l", "d", "_", "1", "0", "0", "1", "6">>)>>,
             <<<<"s", "t", "a", "t", "u", "s", "_", "m", "a", "p">>, GoodStatusMap>> >>)

\* request.data["config"]: documents that differ from a complete one in
\* the jira and validator sections, or in the other three
Documents ==
    {JDict(j \o c \o a \o g \o v) :
        j \in Entry(<<"j", "i", "r", "a">>, JiraSections),
        c \in {<< <<<<"c", "l", "i", "c", "k", "u", "p">>, JDict(<< <<<<"p", "o", "i", "n", "t", "s", "_", "f", "i", "e", "l", "d", "_", "n", "a", "m", "e">>, JStr(<<"S", "t", "o", "r", "y", " ", "P", "o", "i", "n", "t", "s">>)>> >>)>> >>},
        a \in {<< <<<<"a", "z", "u", "r", "e">>, JDict(<< <<<<"p", "o", "i", "n", "t", "s", "_", "f", "i", "e", "l", "d">>, JStr(<<"S", "t", "o", "r", "y", "P", "o", "i", "n", "t", "s">>)>> >>)>> >>},
        g \in {<< <<<<"g", "i", "t", "h", "u", "b">>, JDict(<< <<<<"l", "i", "n", "k", "_", "p", "a", "t", "t", "e", "r", "n", "s">>, JDict(<<>>)>> >>)>> >>},
        v \in Entry(<<"v", "a", "l", "i", "d", "a", "t", "o", "r">>, ValidatorSections)}
    \cup
    {JDict(j \o c \o a \o g) :
        j \in {<< <<<<"j", "i", "r", "a">>, GoodJira>> >>},
        c \in Entry(<<"c", "l", "i", "c", "k", "u", "p">>, ClickUpSections),
        a \in {<<>>},
        g \in Entry(<<"g", "i", "t", "h", "u", "b">>, GithubSections)}
    \cup
    {JDict(j \o a) :
        j \in {<< <<<<"j", "i", "r", "a">>, GoodJira>> >>},
        a \in Entry(<<"a", "z", "u", "r", "e">>, AzureSections)}
    \cup {JNull, JList(<<JStr(<<"j", "i", "r", "a">>)>>), JStr(<<"j", "i", "r", "a">>)}

InitMapCheck ==
    /\ now = StartTime
    /\ tickets = <<>>
    /\ workitems = <<>>
    /\ config \in {NoMapping, JDict(<<>>)}
    /\ proc = NoProc
    /\ hist = NoOp

\* POST {config: cfg, save: save}; hist keeps the request, the outcome of
\* validate_mapping_config and the response status (500: the exception left
\* the view)
MappingMatrixValidate(cfg, save) ==
    \E result \in {validate_mapping_config(cfg)} :
        /\ hist' = [op |-> "mapping_validate", cfg |-> cfg, save |-> save,
                    result |-> result,
                    status |-> IF result.raised THEN 500
                               ELSE IF ~result.ok THEN 400
                               ELSE IF save /\ config = NoMapping THEN 400
                               ELSE 200]
        /\ config' = IF ~result.raised /\ result.ok /\ save /\ config # NoMapping
                     THEN result.normalized ELSE config
        /\ UNCHANGED <<now, tickets, workitems, proc>>

NextMapCheck ==
    \E cfg \in Documents, save \in BOOLEAN : MappingMatrixValidate(cfg, save)

SpecMapCheck == InitMapCheck /\ [][NextMapCheck]_vars

(***************************************************************************)
(* Properties of SpecMapCheck                                              *)
(***************************************************************************)
\* C21: whenever validate_mapping_config returns, ok is true exactly when
\* the errors list is empty, however many warnings there are.
C21_OkIffNoErrors ==
    (hist.op = "mapping_validate" /\ ~hist.result.raised) =>
        (hist.result.ok <=> hist.result.errors = <<>>)
\* a document with warnings and no errors was accepted
C21_Witness ==
    /\ hist.op = "mapping_validate" /\ ~hist.result.raised
    /\ hist.result.ok /\ Len(hist.result.warnings) >= 2

\* C22: validate_mapping_config raises for no document: it returns the
\* result, with the problem in errors.
C22_NeverRaises ==
    hist.op = "mapping_validate" => ~hist.result.raised

(***************************************************************************)
(* to_dt (etl/normalizers/base.py) on JSON values, character by character. *)
(* A datetime is [sec, us, aware]: seconds since the epoch of its wall     *)
(* time, microseconds, and whether it carries a tzinfo (then sec is UTC).  *)
(* A number too large for 32 bits is JBig(q, r) = 1000 * q + r; the        *)
(* numbers read as seconds are below 2^31 here.                            *)
(***************************************************************************)
JBig(q, r) == [t |-> "num", v |-> <<q, r>>]

IsDigit(c) == \E i \in 1..10 : Digits[i] = c
AllDigits(s) == \A i \in DOMAIN s : IsDigit(s[i])
\* int(s) of a text of digits
RECURSIVE IntOf(_)
IntOf(s) ==
    IF s = <<>> THEN 0
    ELSE 10 * IntOf(SubSeq(s, 1, Len(s) - 1))
         + (CHOOSE i \in 1..10 : Digits[i] = s[Len(s)]) - 1

\* datetime: the calendar
IsLeap(y) == (y % 4 = 0 /\ y % 100 # 0) \/ y % 400 = 0
DaysInMonth(y, m) ==
    IF m = 2 THEN (IF IsLeap(y) THEN 29 ELSE 28)
    ELSE IF m \in {4, 6, 9, 11} THEN 30 ELSE 31
RECURSIVE DaysBeforeMonth(_, _)
DaysBeforeMonth(y, m) ==
    IF m <= 1 THEN 0 ELSE DaysBeforeMonth(y, m - 1) + DaysInMonth(y, m - 1)
\* days from 1970-01-01 to y-01-01
DaysBeforeYear(y) ==
    365 * (y - 1970) + (((y - 1) \div 4) - 492) - (((y - 1) \div 100) - 19)
        + (((y - 1) \div 400) - 4)
\* datetime(y, mo, d, h, mi, s) accepts the fields
ValidFields(f) ==
    /\ f.y >= 1 /\ f.mo \in 1..12 /\ f.d >= 1 /\ f.d <= DaysInMonth(f.y, f.mo)
    /\ f.h <= 23 /\ f.mi <= 59 /\ f.s <= 59
WallSeconds(f) ==
    Day * (DaysBeforeYear(f.y) + DaysBeforeMonth(f.y, f.mo) + (f.d - 1))
        + 3600 * f.h + 60 * f.mi + f.s

\* the texts django's parse_datetime and datetime.fromisoformat both read:
\* YYYY-MM-DD, then T or a blank and HH:MM:SS, then "." and 1 to 6 digits,
\* then Z or a sign with HH, HHMM or HH:MM; the date alone is read by
\* fromisoformat.  Shape(s) is what follows the seconds.
DateShape(s) ==
    /\ Len(s) >= 10
    /\ AllDigits(SubSeq(s, 1, 4)) /\ s[5] = "-" /\ AllDigits(SubSeq(s, 6, 7))
    /\ s[8] = "-" /\ AllDigits(SubSeq(s, 9, 10))
TimeShape(s) ==
    /\ Len(s) >= 19 /\ s[11] \in {"T", " "}
    /\ AllDigits(SubSeq(s, 12, 13)) /\ s[14] = ":" /\ AllDigits(SubSeq(s, 15, 16))
    /\ s[17] = ":" /\ AllDigits(SubSeq(s, 18, 19))
\* the digits of the fraction after the seconds
RECURSIVE LeadingDigits(_)
LeadingDigits(s) ==
    IF s # <<>> /\ IsDigit(Head(s)) THEN <<Head(s)>> \o LeadingDigits(Tail(s)) ELSE <<>>
Fraction(s) ==
    IF Len(s) >= 21 /\ s[20] = "." THEN LeadingDigits(SubSeq(s, 21, Len(s))) ELSE <<>>
FractionOk(s) ==
    Len(s) >= 20 /\ s[20] = "." => Len(Fraction(s)) \in 1..6
Zone(s) ==
    SubSeq(s, 20 + (IF Fraction(s) = <<>> THEN 0 ELSE 1 + Len(Fraction(s))), Len(s))
ZoneShape(z) ==
    \/ z = <<>>
    \/ z = <<"Z">>
    \/ /\ Len(z) \in {3, 5, 6} /\ z[1] \in {"+", "-"} /\ AllDigits(SubSeq(z, 2, 3))
       /\ Len(z) = 5 => AllDigits(SubSeq(z, 4, 5))
       /\ Len(z) = 6 => z[4] = ":" /\ AllDigits(SubSeq(z, 5, 6))
WellFormed(s) ==
    DateShape(s) /\ TimeShape(s) /\ FractionOk(s) /\ ZoneShape(Zone(s))
DateOnly(s) == DateShape(s) /\ Len(s) = 10

RECURSIVE Pow10(_)
Pow10(n) == IF n = 0 THEN 1 ELSE 10 * Pow10(n - 1)
Fields(s) ==
    [y |-> IntOf(SubSeq(s, 1, 4)), mo |-> IntOf(SubSeq(s, 6, 7)),
     d |-> IntOf(SubSeq(s, 9, 10)),
     h |-> IF Len(s) = 10 THEN 0 ELSE IntOf(SubSeq(s, 12, 13)),
     mi |-> IF Len(s) = 10 THEN 0 ELSE IntOf(SubSeq(s, 15, 16)),
     s |-> IF Len(s) = 10 THEN 0 ELSE IntOf(SubSeq(s, 18, 19)),
     us |-> IF Len(s) = 10 \/ Fraction(s) = <<>> THEN 0
            ELSE IntOf(Fraction(s)) * Pow10(6 - Len(Fraction(s)))]
\* the offset of the zone in minutes, east positive
OffsetMinutes(z) ==
    IF z \in {<<>>, <<"Z">>} THEN 0
    ELSE (IF z[1] = "-" THEN -1 ELSE 1)
         * (60 * IntOf(SubSeq(z, 2, 3))
            + (IF Len(z) > 3 THEN IntOf(SubSeq(z, Len(z) - 1, Len(z))) ELSE 0))

\* outcomes: the value returned (<<>> is None, else <<sec, us>>, the UTC
\* instant of the aware datetime), or the exception that left to_dt
Gives(d) == [raised |-> FALSE, dt |-> d]
Raises == [raised |-> TRUE, dt |-> <<>>]

\* timezone.make_aware(d): ValueError for a datetime that is aware already
make_aware_fails(d) == d.aware

\* lines 36-39: milliseconds above 10 000 000 000, else seconds;
\* datetime.fromtimestamp(..., tz=utc) is aware
FromTimestamp(v) ==
    IF Len(v) = 2 /\ (v[1] > 10000000 \/ (v[1] = 10000000 /\ v[2] > 0))
    THEN [sec |-> v[1], us |-> 1000 * v[2], aware |-> TRUE]
    ELSE [sec |-> IF Len(v) = 2 THEN 1000 * v[1] + v[2] ELSE v[1],
          us |-> 0, aware |-> TRUE]
\* lines 34-40: the ValueError of make_aware is caught
MadeAware(d) == IF make_aware_fails(d) THEN Gives(<<>>) ELSE Gives(<<d.sec, d.us>>)
FromNumber(v) == MadeAware(FromTimestamp(v))

\* lines 44-45: a sign and four digits at the end get a colon
OffsetColon(s) ==
    IF Len(s) >= 5 /\ s[Len(s) - 4] \in {"+", "-"}
       /\ AllDigits(SubSeq(s, Len(s) - 3, Len(s)))
    THEN SubSeq(s, 1, Len(s) - 2) \o <<":">> \o SubSeq(s, Len(s) - 1, Len(s))
    ELSE s

\* lines 46-55 on the stripped text: parse_datetime returns None for a
\* text that is not well formed and raises ValueError, which nothing
\* catches, for a well-formed text that is no valid datetime; the
\* fromisoformat retry reads the date alone; a naive result is taken as UTC
FromText(s) ==
    IF WellFormed(s)
    THEN IF ~ValidFields(Fields(s)) THEN Raises
         ELSE IF OffsetMinutes(Zone(s)) >= 1440 \/ OffsetMinutes(Zone(s)) <= -1440
              THEN Raises
         ELSE Gives(<<WallSeconds(Fields(s)) - 60 * OffsetMinutes(Zone(s)),
                      Fields(s).us>>)
    ELSE IF DateOnly(s) /\ ValidFields(Fields(s))
         THEN Gives(<<WallSeconds(Fields(s)), 0>>)
    ELSE Gives(<<>>)

\* to_dt(val): the outcome
to_dt(val) ==
    IF ~Truthy(val) THEN Gives(<<>>)
    ELSE IF val.t = "num" THEN FromNumber(val.v)
    ELSE IF val.t = "str" THEN FromText(OffsetColon(Strip(val.v)))
    ELSE Gives(<<>>)

(***************************************************************************)
(* SpecToDt: to_dt called on epoch numbers, texts and other values         *)
(***************************************************************************)
Dates == {<<"2", "0", "2", "3", "-", "1", "1", "-", "1", "4">>, <<"2", "0", "2", "4", "-", "0", "1", "-", "0", "1">>, <<"2", "0", "2", "4", "-", "0", "2", "-", "2", "9">>, <<"2", "0", "2", "3", "-", "0", "2", "-", "2", "9">>, <<"2", "0", "2", "4", "-", "1", "3", "-", "0", "1">>}
Times == {<<"T", "2", "2", ":", "1", "3", ":", "1", "9">>, <<"T", "0", "0", ":", "0", "0", ":", "0", "0">>, <<" ", "0", "0", ":", "0", "0", ":", "0", "0">>, <<"T", "0", "0", ":", "0", "0", ":", "0", "0", ".", "7", "8", "9">>, <<"T", "2", "5", ":", "0", "0", ":", "0", "0">>}
Zones == {<<>>, <<"Z">>, <<"+", "0", "0", "0", "0">>, <<"+", "0", "0", ":", "0", "0">>, <<"+", "0", "5", "3", "0">>, <<"-", "0", "8", "0", "0">>, <<"+", "2", "4", "0", "0">>, <<" ">>}

TimeValues ==
    {JStr(d \o t \o z) : d \in Dates, t \in Times, z \in Zones}
    \cup {JStr(d) : d \in Dates}
    \cup {JStr(<<>>), JStr(<<" ">>), JStr(<<"y", "e", "s", "t", "e", "r", "d", "a", "y">>), JStr(<<"n", "/", "a">>), JNull,
          JList(<<>>), JList(<<JNum(1699999999)>>), JDict(<<>>),
          JNum(0), JNum(1), JNum(1699999999), JNum(1704067200),
          JBig(1699999999, 0), JBig(1704067200, 0), JBig(1699999999, 789),
          JNum(2000000000), JBig(10000000, 1)}

InitToDt ==
    /\ now = StartTime
    /\ tickets = <<>>
    /\ workitems = <<>>
    /\ config = JiraConfig
    /\ proc = NoProc
    /\ hist = NoOp

\* one call; hist keeps the argument and the outcome
ToDt(val) ==
    /\ hist' = [op |-> "to_dt", val |-> val, res |-> to_dt(val)]
    /\ UNCHANGED <<now, tickets, workitems, config, proc>>

NextToDt == \E val \in TimeValues : ToDt(val)

SpecToDt == InitToDt /\ [][NextToDt]_vars

(***************************************************************************)
(* Properties of SpecToDt                                                  *)
(***************************************************************************)
\* the instant an epoch number denotes: milliseconds above 10 000 000 000
EpochInstant(v) ==
    IF Len(v) = 2 /\ (v[1] > 10000000 \/ (v[1] = 10000000 /\ v[2] > 0))
    THEN <<v[1], 1000 * v[2]>>
    ELSE <<IF Len(v) = 2 THEN 1000 * v[1] + v[2] ELSE v[1], 0>>

\* the text with its "+0000" suffix replaced by "Z"
WithZ(s) == SubSeq(s, 1, Len(s) - 5) \o <<"Z">>
EndsPlus0000(s) == Len(s) >= 5 /\ SubSeq(s, Len(s) - 4, Len(s)) = <<"+", "0", "0", "0", "0">>

\* the texts that are no timestamp: not a date, or a date that does not
\* exist, with or without a time
Unparseable(s) ==
    \/ ~DateShape(Strip(s))
    \/ ~ValidFields([Fields(SubSeq(Strip(s), 1, 10)) EXCEPT !.h = 0])
    \/ (Len(Strip(s)) > 10 /\ ~WellFormed(OffsetColon(Strip(s))))
    \/ (WellFormed(OffsetColon(Strip(s))) /\ ~ValidFields(Fields(OffsetColon(Strip(s)))))

\* C23: to_dt never raises; an epoch number gives the instant it denotes,
\* read as milliseconds above 10 000 000 000 and as seconds otherwise; a text
\* ending in +0000 gives the instant of the same text ending in Z; an empty,
\* null or unparseable value gives None.
C23_TotalAndConsistent ==
    hist.op = "to_dt" =>
        /\ ~hist.res.raised
        /\ (hist.val.t = "num" /\ Truthy(hist.val)) =>
              hist.res.dt = EpochInstant(hist.val.v)
        /\ (hist.val.t = "str" /\ EndsPlus0000(hist.val.v)) =>
              hist.res.dt = to_dt(JStr(WithZ(hist.val.v))).dt
        /\ (~Truthy(hist.val) \/ (hist.val.t = "str" /\ Unparseable(hist.val.v))) =>
              hist.res.dt = <<>>

(***************************************************************************)
(* Notifier (etl/notifier.py).  A NotificationChannel row is               *)
(* [board, is_active, channel_type, rules, webhook]; webhook "" is none.   *)
(***************************************************************************)
\* the columns of RemediationTicket (metrics/models.py 246-255)
TicketFields ==
    {"id", "board", "work_item", "rule_code", "message", "status", "created_at",
     "resolved_at", "meta"}

_should_include(rule, channel) ==
    IF channel.rules # <<>>
    THEN \E i \in DOMAIN channel.rules : channel.rules[i] = rule
    ELSE TRUE

\* _collect_for_board: line 29 filters the tickets on updated_at, which is
\* no column of RemediationTicket; QuerySet.filter resolves the name when it
\* is called and raises FieldError, so the function is left there for every
\* board, channel and window
_collect_for_board(ts, board, channel, window_minutes, t) ==
    [err |-> "updated_at" \notin TicketFields, grouped |-> <<>>]

\* the pks of the active teams channels of the board, channels.first() is
\* the one with the least pk
ActiveChannels(channels, board) ==
    {c \in DOMAIN channels :
        /\ channels[c].board = board /\ channels[c].is_active
        /\ channels[c].channel_type = "teams"}

\* notify_remediation_tickets(board_id, window_minutes): the boards without
\* an active channel are skipped, the first board with one ends the task in
\* _collect_for_board, before the first card is posted
notify_remediation_tickets(ts, channels, board_id, window_minutes, t) ==
    [err |-> \E b \in (IF board_id # None /\ board_id # 0
                       THEN {b \in Boards : b = board_id} ELSE Boards) :
                /\ ActiveChannels(channels, b) # {}
                /\ _collect_for_board(ts, b, channels[Min(ActiveChannels(channels, b))],
                                      window_minutes, t).err,
     sent |-> 0, posts |-> <<>>, tickets |-> ts]

(***************************************************************************)
(* SpecNotify: tickets are opened and resolved, time passes, and the       *)
(* notifier runs.  config is the NotificationChannel table.                *)
(***************************************************************************)
Channel(board, is_active, rules, webhook) ==
    [board |-> board, is_active |-> is_active, channel_type |-> "teams",
     rules |-> rules, webhook |-> webhook]
ChannelTables ==
    { <<>>,
      <<Channel(1, TRUE, <<>>, "https://hook/1")>>,
      <<Channel(1, TRUE, <<"MISSING_POINTS">>, "https://hook/1"),
        Channel(1, TRUE, <<"BLOCKED_SLA">>, "https://hook/2")>>,
      <<Channel(1, FALSE, <<>>, "https://hook/1"),
        Channel(2, TRUE, <<"STUCK_IN_DEV">>, "")>> }
NotifyBoardIds == {None, 1, 2, 3}
WindowMinutes == 60

InitNotify ==
    /\ now = 0
    /\ tickets = <<>>
    /\ workitems = <<>>
    /\ config \in ChannelTables
    /\ proc = NoProc
    /\ hist = NoOp

\* _collect_for_board as notify_remediation_tickets calls it
CollectForBoard(board) ==
    /\ ActiveChannels(config, board) # {}
    /\ hist' = [op |-> "collect", board |-> board,
                channel |-> Min(ActiveChannels(config, board)), at |-> now,
                out |-> _collect_for_board(tickets, board,
                                           config[Min(ActiveChannels(config, board))],
                                           WindowMinutes, now)]
    /\ UNCHANGED <<now, tickets, workitems, config, proc>>

NotifyRemediationTickets(board_id) ==
    \E out \in {notify_remediation_tickets(tickets, config, board_id, WindowMinutes, now)} :
        /\ tickets' = out.tickets
        /\ hist' = [op |-> "notify", board_id |-> board_id, at |-> now,
                    err |-> out.err, sent |-> out.sent, posts |-> out.posts]
        /\ UNCHANGED <<now, workitems, config, proc>>

NextNotify ==
    \/ Tick
    \/ \E inp \in OpenInputs : OpenTicket(inp[1], inp[2], inp[3])
    \/ \E k \in TicketKeys : ResolveTicketIfAny(k)
    \/ \E board \in Boards : CollectForBoard(board)
    \/ \E board_id \in NotifyBoardIds : NotifyRemediationTickets(board_id)

SpecNotify == InitNotify /\ [][NextNotify]_vars

(***************************************************************************)
(* Properties of SpecNotify                                                *)
(***************************************************************************)
\* the non-done tickets of the board whose rule code the channel admits
Admitted(board, channel) ==
    {i \in DOMAIN tickets :
        /\ tickets[i].board = board /\ tickets[i].status # DONE
        /\ _should_include(tickets[i].rule_code, channel)}
\* those created inside the trailing window
Recent(board, channel) ==
    {i \in Admitted(board, channel) : tickets[i].created_at >= now - 60 * WindowMinutes}
OpenCount(board, channel, rule) ==
    Cardinality({i \in Admitted(board, channel) : tickets[i].rule_code = rule})

\* C24: when the board has a non-done ticket the channel admits,
\* _collect_for_board returns a digest that is not empty, also when no
\* ticket is inside the window; that fallback digest has at most 5 rule
\* codes, each with its count of open tickets, and no rule left out has
\* more open tickets than one in the digest.
C24_DigestWhileViolationsPersist ==
    (hist.op = "collect" /\ hist.at = now
        /\ Admitted(hist.board, config[hist.channel]) # {}) =>
        /\ ~hist.out.err
        /\ hist.out.grouped # <<>>
        /\ Recent(hist.board, config[hist.channel]) = {} =>
              /\ Len(hist.out.grouped) <= 5
              /\ \A g \in DOMAIN hist.out.grouped :
                    hist.out.grouped[g].count
                        = OpenCount(hist.board, config[hist.channel],
                                    hist.out.grouped[g].rule)
              /\ \A i \in Admitted(hist.board, config[hist.channel]) :
                    \/ \E g \in DOMAIN hist.out.grouped :
                          hist.out.grouped[g].rule = tickets[i].rule_code
                    \/ \A g \in DOMAIN hist.out.grouped :
                          hist.out.grouped[g].count
                              >= OpenCount(hist.board, config[hist.channel],
                                           tickets[i].rule_code)

MaxRuns == 3         \* rows in the ETLJobRun table

STARTED == "started"
SUCCESS == "success"
FAILED  == "failed"

\* error_summary: the default dict() and {"message": ..., "traceback": ...}
NoSummary == [set |-> FALSE, message |-> ""]
Summary(message) == [set |-> TRUE, message |-> message]

\* ETLJobRun.objects.create(job_name, board, mapping_version, status=STARTED,
\* meta=meta or {}); started_at defaults to timezone.now()
create_run(runs, job_name, board, t) ==
    Append(runs, [job_name |-> job_name, board |-> board, status |-> STARTED,
                  started_at |-> t, finished_at |-> None,
                  records_pulled |-> 0, records_normalized |-> 0,
                  error_summary |-> NoSummary,
                  meta |-> <<>>])

mark_success(runs, pk, t) ==
    [runs EXCEPT ![pk].status = SUCCESS, ![pk].finished_at = t]

mark_failedMut(runs, pk, message, t) ==
    [runs EXCEPT ![pk].status = FAILED, ![pk].error_summary = Summary(message)]

mark_failed(runs, pk, message, t) ==
    [runs EXCEPT ![pk].status = FAILED, ![pk].finished_at = t,
                 ![pk].error_summary = Summary(message)]

\* increment(run, records_normalized=delta): the counter plus (delta or 0),
\* then run.save() of the task's own instance
increment(runs, pk, delta) ==
    [runs EXCEPT ![pk].records_normalized = @ + delta]

\* get_normalizer(board).normalize(recent_raw)
normalize(source, store, raw_items, board, t) ==
    IF source = JIRA THEN JiraNormalize(store, raw_items, board, JiraConfig, t)
    ELSE IF source = CLICKUP THEN ClickUpNormalize(store, raw_items, board, JiraConfig, t)
    ELSE AzureNormalize(store, raw_items, board, JiraConfig, t)

\* the with-block is entered: the STARTED row is created and committed
\* (transaction.atomic, lines 19-29) before the body starts
etl_run_enter(runs, job_name, board, t) ==
    [runs |-> create_run(runs, job_name, board, t), run |-> Len(runs) + 1]

\* the with-block is left: except Exception -> mark_failed(str(exc)) and
\* raise (the exception in flight); else -> mark_success()
etl_run_exit(runs, pk, exc, t) ==
    IF exc # "" THEN [runs |-> mark_failed(runs, pk, exc, t), raised |-> exc]
    ELSE [runs |-> mark_success(runs, pk, t), raised |-> ""]

NoJob == [pc |-> "idle"]
NormalizeJobs == {<<JIRA, 1, <<Jira1>>>>, <<CLICKUP, 2, <<ClickUp1>>>>,
                  <<AZURE, 2, <<Azure1>>>>}

InitEtlRun ==
    /\ now = StartTime
    /\ tickets = <<>>
    /\ workitems = <<>>
    /\ config = <<>>
    /\ proc = NoJob
    /\ hist = NoOp

\* etl_normalize(board_id) up to the start of the body
EnterNormalize(job) ==
    /\ proc.pc = "idle"
    /\ Len(config) < MaxRuns
    /\ \E e \in {etl_run_enter(config, "normalize", job[2], now)} :
          /\ config' = e.runs
          /\ proc' = [pc |-> "body", job_name |-> "normalize", run |-> e.run,
                      source |-> job[1], board |-> job[2], raw_items |-> job[3]]
    /\ UNCHANGED <<now, tickets, workitems, hist>>

\* etl_validate(board_id) up to the start of the body
EnterValidate(board) ==
    /\ proc.pc = "idle"
    /\ Len(config) < MaxRuns
    /\ \E e \in {etl_run_enter(config, "validate", board, now)} :
          /\ config' = e.runs
          /\ proc' = [pc |-> "body", job_name |-> "validate", run |-> e.run,
                      board |-> board]
    /\ UNCHANGED <<now, tickets, workitems, hist>>

\* the body of etl_normalize: normalize, then increment; an IntegrityError
\* of update_or_create leaves the body before increment
BodyNormalize ==
    /\ proc.pc = "body"
    /\ proc.job_name = "normalize"
    /\ \E res \in {normalize(proc.source, workitems, proc.raw_items, proc.board, now)} :
          /\ workitems' = res.store
          /\ config' = IF res.err THEN config ELSE increment(config, proc.run, res.count)
          /\ proc' = [pc |-> "left", run |-> proc.run,
                      exc |-> IF res.err THEN "IntegrityError" ELSE "",
                      value |-> IF res.err THEN None ELSE res.count]
    /\ UNCHANGED <<now, tickets, hist>>

\* the body of etl_validate: validate_board, run.meta = {"violations":
\* results}, run.save(update_fields=["meta"])
BodyValidate ==
    /\ proc.pc = "body"
    /\ proc.job_name = "validate"
    /\ \E out \in validate_board(tickets, proc.board, workitems, JiraConfig, now) :
          /\ Len(out.tickets) <= MaxRows
          /\ tickets' = out.tickets
          /\ config' = [config EXCEPT ![proc.run].meta = out.results]
          /\ proc' = [pc |-> "left", run |-> proc.run, exc |-> "", value |-> 0]
    /\ UNCHANGED <<now, workitems, hist>>

\* the generator resumes after the body; hist keeps what the body did and
\* what the caller of the task sees
EtlRunExit ==
    /\ proc.pc = "left"
    /\ \E x \in {etl_run_exit(config, proc.run, proc.exc, now)} :
          /\ config' = x.runs
          /\ hist' = [op |-> "etl_run", run |-> proc.run, body_exc |-> proc.exc,
                      raised |-> x.raised, at |-> now]
    /\ proc' = NoJob
    /\ UNCHANGED <<now, tickets, workitems>>

NextEtlRun ==
    \/ TickN
    \/ \E job \in NormalizeJobs : EnterNormalize(job)
    \/ \E board \in Boards : EnterValidate(board)
    \/ BodyNormalize
    \/ BodyValidate
    \/ EtlRunExit

SpecEtlRun == InitEtlRun /\ [][NextEtlRun]_vars

Running(pk) == proc.pc # "idle" /\ proc.run = pk

\* C26: every job wrapped by etl_run has an ETLJobRun row that is STARTED
\* (finished_at unset) from the creation of the row until the body has been
\* left, and then takes one terminal status that never changes: SUCCESS with
\* finished_at set if the body returned, FAILED with finished_at set and the
\* message of the exception in error_summary if the body raised, and then
\* the caller sees the exception the body raised.
C26_OneTerminalStatus ==
    /\ [](\A pk \in DOMAIN config :
            IF Running(pk)
            THEN config[pk].status = STARTED /\ config[pk].finished_at = None
            ELSE /\ config[pk].status \in {SUCCESS, FAILED}
                 /\ config[pk].finished_at # None
                 /\ config[pk].finished_at >= config[pk].started_at
                 /\ config[pk].status = FAILED <=> config[pk].error_summary.set)
    /\ [](hist.op = "etl_run" =>
            /\ hist.raised = hist.body_exc
            /\ IF hist.body_exc = ""
               THEN /\ config[hist.run].status = SUCCESS
                    /\ config[hist.run].finished_at = hist.at
               ELSE /\ config[hist.run].status = FAILED
                    /\ config[hist.run].finished_at = hist.at
                    /\ config[hist.run].error_summary = Summary(hist.body_exc))
    /\ [][\A pk \in DOMAIN config :
            config[pk].status # STARTED =>
                pk \in DOMAIN config' /\ config'[pk] = config[pk]]_vars

\* a failed run and a successful run after it, the clock having advanced
\* while the failed body ran
C26_Witness ==
    /\ hist.op = "etl_run"
    /\ \E i, j \in DOMAIN config :
          /\ config[i].status = FAILED
          /\ config[i].finished_at > config[i].started_at
          /\ config[i].error_summary = Summary("IntegrityError")
          /\ config[j].status = SUCCESS
          /\ config[j].records_normalized = 1
          /\ i < j

(***************************************************************************)
(* The manual ticket paths of metrics/views_remediation.py next to the     *)
(* ticket helpers of etl/validator.py.  SpecManual calls open_ticket,      *)
(* resolve_ticket_if_any, the single-ticket PATCH and the bulk action one  *)
(* at a time; hist keeps the call and the table before it.                 *)
(***************************************************************************)
MaxManualRows == 4   \* rows in the ticket table of SpecManual
MaxNotes == 1        \* notes appended to one ticket
MaxManualCalls == 1  \* PATCH and bulk requests served in a behaviour

\* meta["notes"] is a list of {"at", "by", "text"} entries, all by the same
\* user with the same text here: the list is held as its length
Notes(meta) ==
    IF \E p \in meta : p[1] = "notes"
    THEN (CHOOSE p \in meta : p[1] = "notes")[2]
    ELSE 0

\* notes.append(...); meta["notes"] = notes
AppendNote(meta, n) ==
    {p \in meta : p[1] # "notes"} \cup {<<"notes", Notes(meta) + n>>}

\* the flag "changed" of open_ticket's update branch: save() is called iff
\* it is set
Changed(rt, message, meta) ==
    rt.message # message \/ (meta # EmptyMeta /\ rt.meta # meta)

\* RemediationTicketUpdateView.patch(pk) with the validated data (a record
\* of the fields sent).  owner and snoozed_until are no columns of
\* RemediationTicket: they are set on the instance and save() stores
\* nothing for them.  The row is saved before the response is built, and
\* RemediationTicketSerializer names fields the model lacks, so building
\* the response fails (500) with the write in place.
patch(ts, pk, data, t) ==
    IF pk \notin DOMAIN ts THEN [tickets |-> ts, status |-> 404]
    ELSE [tickets |->
            [ts EXCEPT
               ![pk].status = IF "status" \in DOMAIN data THEN data.status ELSE @,
               ![pk].resolved_at = IF "status" \in DOMAIN data /\ data.status = DONE
                                   THEN t ELSE @,
               ![pk].message = IF "message" \in DOMAIN data THEN data.message ELSE @,
               ![pk].meta = IF "append_note" \in DOMAIN data THEN AppendNote(@, 1) ELSE @],
          status |-> 500]

\* one row of the bulk action; assign and snooze set attributes that are no
\* columns, and save() writes the row as it was read
BulkRow(rt, action, note, t) ==
    IF action = "resolve" THEN [rt EXCEPT !.status = DONE, !.resolved_at = t]
    ELSE IF action = "note"
    THEN [rt EXCEPT !.meta = AppendNote(@, IF note THEN 1 ELSE 0)]
    ELSE IF action = "reopen" THEN [rt EXCEPT !.status = OPEN, !.resolved_at = None]
    ELSE rt

\* RemediationTicketBulkActionView.post(ids, action, note): "ack" reads
\* rt.acknowledged_at, no attribute of the model, at the first row
bulk_action(ts, ids, action, note, t) ==
    IF action = "ack" /\ ids \cap DOMAIN ts # {}
    THEN [tickets |-> ts, status |-> 500, updated |-> 0]
    ELSE [tickets |-> [i \in DOMAIN ts |->
                         IF i \in ids THEN BulkRow(ts[i], action, note, t) ELSE ts[i]],
          status |-> 200, updated |-> Cardinality(ids \cap DOMAIN ts)]

K1 == <<1, PA1, "MISSING_POINTS">>
K2 == <<2, PA1, "BLOCKED_SLA">>
ManualKeys == {K1, K2}
\* the rules pass no meta, sla_check_blocked always passes one
ManualInputs == {<<K1, "m1", EmptyMeta>>, <<K1, "m2", EmptyMeta>>, <<K2, "m1", SlaMeta>>}
PatchData == {[status |-> OPEN], [status |-> IN_PROGRESS], [status |-> DONE],
              [message |-> "m2"], [append_note |-> "n"]}
BulkIds == {{1}, {2}, {1, 2}, {5}}
BulkActions == {"ack", "resolve", "assign", "note", "reopen"}

OpenFramed(k, message, meta) ==
    /\ \E out \in open_ticket(tickets, k[1], k[2], k[3], message, meta, now) :
          /\ Len(out[1]) <= MaxManualRows
          /\ tickets' = out[1]
          /\ hist' = [op |-> "open", key |-> k, message |-> message, meta |-> meta,
                      rt |-> out[2], before |-> tickets,
                      wrote |-> /\ out[2] <= Len(tickets)
                                /\ Changed(tickets[out[2]], message, meta)]
    /\ UNCHANGED <<now, workitems, config, proc>>

ResolveFramed(k) ==
    /\ tickets' = resolve_ticket_if_any(tickets, k[1], k[2], k[3], now)
    /\ hist' = [op |-> "resolve", key |-> k, at |-> now, before |-> tickets]
    /\ UNCHANGED <<now, workitems, config, proc>>

Patch(pk, data) ==
    /\ proc < MaxManualCalls
    /\ proc' = proc + 1
    /\ "append_note" \in DOMAIN data /\ pk \in DOMAIN tickets
          => Notes(tickets[pk].meta) < MaxNotes
    /\ \E res \in {patch(tickets, pk, data, now)} :
          /\ tickets' = res.tickets
          /\ hist' = [op |-> "patch", pk |-> pk, status |-> res.status,
                      before |-> tickets]
    /\ UNCHANGED <<now, workitems, config>>

BulkAction(ids, action) ==
    /\ proc < MaxManualCalls
    /\ proc' = proc + 1
    /\ action = "note" => \A i \in ids \cap DOMAIN tickets :
                             Notes(tickets[i].meta) < MaxNotes
    /\ \E res \in {bulk_action(tickets, ids, action, TRUE, now)} :
          /\ tickets' = res.tickets
          /\ hist' = [op |-> "bulk", action |-> action, status |-> res.status,
                      updated |-> res.updated, before |-> tickets]
    /\ UNCHANGED <<now, workitems, config>>

\* proc counts the PATCH and bulk requests served
InitManual ==
    /\ now = 0
    /\ tickets = <<>>
    /\ workitems = <<>>
    /\ config = <<>>
    /\ proc = 0
    /\ hist = NoOp

NextManual ==
    \/ Tick
    \/ \E inp \in ManualInputs : OpenFramed(inp[1], inp[2], inp[3])
    \/ \E k \in ManualKeys : ResolveFramed(k)
    \/ \E pk \in 1..MaxManualRows, data \in PatchData : Patch(pk, data)
    \/ \E ids \in BulkIds, action \in BulkActions : BulkAction(ids, action)

SpecManual == InitManual /\ [][NextManual]_vars

\* C27: when open_ticket finds a non-done ticket of the key it creates no
\* row, writes iff the passed message or meta differs from the stored one,
\* and on return the ticket holds the passed message and meta with its
\* status, created_at and resolved_at as before.
C27_FoundTicketFrame ==
    (hist.op = "open" /\ NonDone(hist.before, hist.key[1], hist.key[2], hist.key[3]) # {}) =>
        /\ Len(tickets) = Len(hist.before)
        /\ hist.wrote <=> \/ hist.before[hist.rt].message # hist.message
                          \/ hist.before[hist.rt].meta # hist.meta
        /\ tickets[hist.rt].message = hist.message
        /\ tickets[hist.rt].meta = hist.meta
        /\ tickets[hist.rt].status = hist.before[hist.rt].status
        /\ tickets[hist.rt].created_at = hist.before[hist.rt].created_at
        /\ tickets[hist.rt].resolved_at = hist.before[hist.rt].resolved_at

\* C28: resolve_ticket_if_any sets status done and resolved_at (the clock of
\* the call) on every non-done ticket of the key, however many there are,
\* and leaves every other row as it was: the tickets of another key and the
\* tickets already done keep all their columns, resolved_at included.
C28_ResolveFrame ==
    hist.op = "resolve" =>
        /\ DOMAIN tickets = DOMAIN hist.before
        /\ \A i \in DOMAIN tickets :
              IF i \in NonDone(hist.before, hist.key[1], hist.key[2], hist.key[3])
              THEN /\ tickets[i].status = DONE
                   /\ tickets[i].resolved_at = hist.at
                   /\ [tickets[i] EXCEPT !.status = OPEN, !.resolved_at = None]
                        = [hist.before[i] EXCEPT !.status = OPEN, !.resolved_at = None]
              ELSE tickets[i] = hist.before[i]

\* a call that found two non-done tickets of the key, a ticket of the key
\* resolved earlier and a non-done ticket of another key
C28_Witness ==
    /\ hist.op = "resolve"
    /\ Cardinality(NonDone(hist.before, hist.key[1], hist.key[2], hist.key[3])) >= 2
    /\ \E i, j \in DOMAIN tickets :
          /\ hist.before[i].status = DONE
          /\ <<hist.before[i].board, hist.before[i].work_item, hist.before[i].rule_code>> = hist.key
          /\ tickets[i].resolved_at < hist.at
          /\ <<tickets[j].board, tickets[j].work_item, tickets[j].rule_code>> # hist.key
          /\ tickets[j].status # DONE

\* C29: with the bulk action and the single-ticket PATCH interleaved with
\* open_ticket and resolve_ticket_if_any, no key has two tickets whose
\* status is not done.
C29_AtMostOneNonDoneManual ==
    \A k \in ManualKeys : Cardinality(NonDone(tickets, k[1], k[2], k[3])) <= 1

\* the thresholds of rule_stuck_in_dev, rule_waiting_for_qa and
\* rule_stuck_in_qa: <<key of the validator section, builtin default>>
RuleThresholds == {<<"max_dev_days_without_progress", 4>>,
                   <<"max_ready_for_qa_days", 2>>, <<"max_qa_days", 3>>}

\* C30: in a validate_board run each of the three rules uses as threshold
\* exactly the non-negative number the validator section of the active
\* config holds for its key, 0 included, and the default only when the key
\* is absent.
C30_ConfiguredThresholdUsed ==
    hist.op = "validate" =>
        \A th \in RuleThresholds :
            max_days_of(config, th[1], th[2]) =
                IF Has(config, "validator") /\ Has(config.validator, th[1])
                THEN config.validator[th[1]] ELSE th[2]

\* C31: when validate_board returns, an item of the board has a non-done
\* STUCK_IN_DEV ticket exactly when dev_started_at is set, dev_done_at is
\* unset, the item is not closed and the time elapsed since dev_started_at
\* is greater than the configured max days, whatever the elapsed time (a
\* fraction of a day past the limit included).
C31_StuckInDevByElapsedTime ==
    JustValidated =>
        \A sid \in DOMAIN workitems :
            workitems[sid].board = hist.board =>
                (Live(<<hist.board, sid, "STUCK_IN_DEV">>) # {} <=>
                    /\ workitems[sid].dev_started_at # None
                    /\ workitems[sid].dev_done_at = None
                    /\ ~workitems[sid].closed
                    /\ now - workitems[sid].dev_started_at >
                          ConfiguredDays("max_dev_days_without_progress", 4) * Day)

\* the jira.status_map object of a document, {} when there is none
StatusMapOf(cfg) ==
    IF cfg.t # "dict" \/ DGet(cfg, <<"j", "i", "r", "a">>).t # "dict" THEN JDict(<<>>)
    ELSE IF DGet(DGet(cfg, <<"j", "i", "r", "a">>), <<"s", "t", "a", "t", "u", "s", "_", "m", "a", "p">>).t # "dict" THEN JDict(<<>>)
    ELSE DGet(DGet(cfg, <<"j", "i", "r", "a">>), <<"s", "t", "a", "t", "u", "s", "_", "m", "a", "p">>)

\* a value that is not a non-empty list of non-blank strings
NotNamesList(val) ==
    ~(/\ val.t = "list"
      /\ val.v # <<>>
      /\ \A i \in DOMAIN val.v : val.v[i].t = "str" /\ Strip(val.v[i].v) # <<>>)

\* C32: a returned result has ok = false and an error at
\* jira.status_map.<step> for every entry of jira.status_map whose value is
\* not a non-empty list of non-blank strings, the empty list included.
C32_BadStatusEntryIsError ==
    (hist.op = "mapping_validate" /\ ~hist.result.raised) =>
        \A i \in DOMAIN StatusMapOf(hist.cfg).v :
            NotNamesList(StatusMapOf(hist.cfg).v[i][2]) =>
                /\ ~hist.result.ok
                /\ \E e \in DOMAIN hist.result.errors :
                      hist.result.errors[e].path =
                          Dot(Dot(<<"j", "i", "r", "a">>, <<"s", "t", "a", "t", "u", "s", "_", "m", "a", "p">>), StatusMapOf(hist.cfg).v[i][1])

(***************************************************************************)
(* Specification SpecBackfill: backfill_blocked_since over stores that     *)
(* hold rows written before blocked_since was tracked (blocked_flag set,   *)
(* blocked_since null), with Jira normalization runs in between.           *)
(***************************************************************************)
\* n of backfill_blocked_since: one per row of the querysets
backfill_count(store, boards) ==
    Cardinality({sid \in DOMAIN store : /\ store[sid].board \in boards
                                         /\ store[sid].blocked_flag
                                         /\ store[sid].blocked_since = None})

\* Board.objects.filter(id=board_id) if board_id else Board.objects.all()
BoardsOf(board_id) == IF board_id \in {None, 0} THEN Boards ELSE {board_id} \cap Boards

HistoricRow(board, times, blocked, since) ==
    [BlankRow(JIRA, 9 * Day) EXCEPT !.board = board, !.dev_started_at = times[1],
                                    !.ready_for_qa_at = times[2], !.created_at = times[3],
                                    !.blocked_flag = blocked, !.blocked_since = since]
HistoricRows ==
    {HistoricRow(b, ts, bl[1], bl[2]) :
        b \in Boards,
        ts \in {<<6 * Day, 7 * Day, 5 * Day>>, <<None, 7 * Day, 5 * Day>>,
                <<None, None, 5 * Day>>, <<None, None, None>>},
        bl \in {<<TRUE, None>>, <<TRUE, 8 * Day>>, <<FALSE, None>>}}

InitBackfill ==
    /\ now = StartTime
    /\ tickets = <<>>
    /\ workitems \in [{PA1, PA2} -> HistoricRows]
    /\ config = JiraConfig
    /\ proc = NoProc
    /\ hist = NoOp

\* SLABlockedBackfillTrigger.post: backfill_blocked_since(board_id) or
\* backfill_blocked_since(); set_to_now_if_missing keeps its default
BackfillBlockedSince(board_id) ==
    /\ workitems' = backfill_blocked_since(workitems, BoardsOf(board_id), TRUE, now)
    /\ hist' = [op |-> "backfill", boards |-> BoardsOf(board_id), at |-> now,
                before |-> workitems,
                n |-> backfill_count(workitems, BoardsOf(board_id))]
    /\ UNCHANGED <<now, tickets, config, proc>>

NextBackfill ==
    \/ TickN
    \/ \E r \in {<<1, <<Jira1>>>>, <<1, <<Jira2>>>>} : SyncJira(r[1], r[2])
    \/ \E board_id \in {None, 1, 2, 3} : BackfillBlockedSince(board_id)

SpecBackfill == InitBackfill /\ [][NextBackfill]_vars

\* the rows backfill_blocked_since is to write
Lacking(store, boards) ==
    {sid \in DOMAIN store : /\ store[sid].board \in boards
                            /\ store[sid].blocked_flag
                            /\ store[sid].blocked_since = None}

RowsOf(rows, source, sid) ==
    {i \in DOMAIN rows : rows[i].source = source /\ rows[i].source_id = sid}

\* INSERT INTO workitem: source_id is unique=True, the second row of a
\* source_id is refused with IntegrityError
insertMut(rows, row) == [rows |-> Append(rows, row), err |-> FALSE]
insert(rows, row) ==
    IF \E i \in DOMAIN rows : rows[i].source_id = row.source_id
    THEN [rows |-> rows, err |-> TRUE]
    ELSE [rows |-> Append(rows, row), err |-> FALSE]

\* the row get_or_create inserts: source, source_id and the defaults
Placeholder(board, source, parent_key, t) ==
    [source_id |-> parent_key]
    @@ Assign(BlankRow(source, t),
              [board |-> board, title |-> ParentTitle(parent_key), item_type |-> STORY], t)

\* the row the Jira normalizer writes for an issue of the batch
NormalizedRow(rp, board, t) ==
    [source_id |-> JiraKey(rp.payload)]
    @@ JiraNormalize(<<>>, <<rp>>, board, JiraConfig, t).store[JiraKey(rp.payload)]

ParentKeys == {PA1, PA2, <<>>}

InitParent ==
    /\ now = StartTime
    /\ tickets = <<>>
    /\ workitems = <<>>
    /\ config = JiraConfig
    /\ proc = [j \in Jobs |-> Idle]
    /\ hist = [op |-> "none", tog |-> FALSE]

UpsertHist(j, key, via, err, row) ==
    [op |-> "upsert", job |-> j, key |-> key, via |-> via, err |-> err,
     parent |-> row, tog |-> ~hist.tog]

\* upsert_parent(board, JIRA, parent_key): "if not parent_key: return None",
\* then the SELECT of get_or_create
UpsertGet(j, board, parent_key) ==
    /\ proc[j].pc = "idle"
    /\ IF parent_key = <<>>
       THEN /\ hist' = UpsertHist(j, parent_key, "none", FALSE, 0)
            /\ proc' = proc
       ELSE IF RowsOf(workitems, JIRA, parent_key) # {}
       THEN /\ \E i \in RowsOf(workitems, JIRA, parent_key) :
                  hist' = UpsertHist(j, parent_key, "get", FALSE, i)
            /\ proc' = proc
       ELSE /\ proc' = [proc EXCEPT ![j] = [pc |-> "create", board |-> board,
                                            key |-> parent_key]]
            /\ hist' = hist
    /\ UNCHANGED <<now, tickets, workitems, config>>

\* the INSERT of get_or_create, in its own savepoint
UpsertCreate(j) ==
    /\ proc[j].pc = "create"
    /\ \E ins \in {insert(workitems, Placeholder(proc[j].board, JIRA, proc[j].key, now))} :
          /\ workitems' = ins.rows
          /\ IF ins.err
             THEN /\ proc' = [proc EXCEPT ![j].pc = "reget"]
                  /\ hist' = hist
             ELSE /\ proc' = [proc EXCEPT ![j] = Idle]
                  /\ hist' = UpsertHist(j, proc[j].key, "create", FALSE, Len(ins.rows))
    /\ UNCHANGED <<now, tickets, config>>

\* after IntegrityError get_or_create SELECTs again and re-raises when the
\* row still is not there
UpsertReget(j) ==
    /\ proc[j].pc = "reget"
    /\ IF RowsOf(workitems, JIRA, proc[j].key) # {}
       THEN \E i \in RowsOf(workitems, JIRA, proc[j].key) :
               hist' = UpsertHist(j, proc[j].key, "reget", FALSE, i)
       ELSE hist' = UpsertHist(j, proc[j].key, "reget", TRUE, 0)
    /\ proc' = [proc EXCEPT ![j] = Idle]
    /\ UNCHANGED <<now, tickets, workitems, config>>

\* the issue itself is normalized: update_or_create(source, source_id)
NormalizeIssue(rp, board) ==
    /\ IF RowsOf(workitems, JIRA, JiraKey(rp.payload)) # {}
       THEN workitems' = [i \in DOMAIN workitems |->
                            IF i \in RowsOf(workitems, JIRA, JiraKey(rp.payload))
                            THEN NormalizedRow(rp, board, now) ELSE workitems[i]]
       ELSE workitems' = insert(workitems, NormalizedRow(rp, board, now)).rows
    /\ hist' = [op |-> "normalize", tog |-> ~hist.tog]
    /\ UNCHANGED <<now, tickets, config, proc>>

NextParent ==
    \/ TickN
    \/ \E j \in Jobs, k \in ParentKeys : UpsertGet(j, 1, k)
    \/ \E j \in Jobs : UpsertCreate(j)
    \/ \E j \in Jobs : UpsertReget(j)
    \/ \E rp \in {Jira1, Jira5} : NormalizeIssue(rp, 1)

SpecParent == InitParent /\ [][NextParent]_vars

\* C34: upsert_parent inserts a placeholder only when the table has no row
\* of (source, source_id); it never changes a row that exists, a fully
\* normalized parent included, and returns the row of the key; however the
\* calls of two jobs interleave, no key has more than one row.
C34_UpsertParentIdempotent ==
    /\ [](\A k \in ParentKeys : Cardinality(RowsOf(workitems, JIRA, k)) <= 1)
    /\ [](hist.op = "upsert" /\ hist.key # <<>> =>
            /\ ~hist.err
            /\ hist.parent \in RowsOf(workitems, JIRA, hist.key))
    /\ [][hist'.op # "normalize" =>
            /\ \A i \in DOMAIN workitems :
                  i \in DOMAIN workitems' /\ workitems'[i] = workitems[i]
            /\ Len(workitems') > Len(workitems) =>
                  /\ Len(workitems') = Len(workitems) + 1
                  /\ RowsOf(workitems, JIRA, workitems'[Len(workitems')].source_id) = {}
                  /\ workitems'[Len(workitems')].title =
                        ParentTitle(workitems'[Len(workitems')].source_id)]_vars

\* a job lost the race for the INSERT and got the other job's placeholder,
\* while the table also holds a fully normalized row
C34_Witness ==
    /\ hist.op = "upsert" /\ hist.via = "reget" /\ ~hist.err
    /\ workitems[hist.parent].title = ParentTitle(hist.key)
    /\ \E i \in DOMAIN workitems : workitems[i].title = <<"L", "o", "g", "i", "n">>

IsUpper(c) == \E i \in 1..26 : UpperChars[i] = c

\* the length of the run of upper-case letters / of digits from position p
RECURSIVE UpperRun(_, _)
UpperRun(text, p) ==
    IF p <= Len(text) /\ IsUpper(text[p]) THEN 1 + UpperRun(text, p + 1) ELSE 0
RECURSIVE DigitRun(_, _)
DigitRun(text, p) ==
    IF p <= Len(text) /\ IsDigit(text[p]) THEN 1 + DigitRun(text, p + 1) ELSE 0

\* JIRA_KEY_RE = ([A-Z]{2,}-\d+) matched at position p, after u upper-case
\* letters: the position after the match, 0 when there is no match at p
MatchAfter(text, p, u) ==
    IF u >= 2 /\ p + u <= Len(text) /\ text[p + u] = "-" /\ DigitRun(text, p + u + 1) >= 1
    THEN p + u + 1 + DigitRun(text, p + u + 1)
    ELSE 0
MatchEnd(text, p) == MatchAfter(text, p, UpperRun(text, p))

\* set(JIRA_KEY_RE.findall(text)): the matches from left to right, each
\* search resuming after the previous match
RECURSIVE FindFrom(_, _, _)
FindFrom(text, p, e) ==
    IF p > Len(text) THEN {}
    ELSE IF e # 0
    THEN {SubSeq(text, p, e - 1)}
         \cup (IF e > Len(text) THEN {} ELSE FindFrom(text, e, MatchEnd(text, e)))
    ELSE IF p = Len(text) THEN {} ELSE FindFrom(text, p + 1, MatchEnd(text, p + 1))
FindAll(text, p) == FindFrom(text, p, MatchEnd(text, p))

\* extract_issue_keys_from_text(text, link_patterns)["jira"] as a set; the
\* active config has no github section, so link_patterns is the default
\* {"jira": JIRA_KEY_RE}, which finds the same keys again
extract_issue_keys_from_text(text) == FindAll(text, 1)

\* A review is held as [login, submitted_at] for r["user"]["login"] and
\* r["submitted_at"], head and base of a pull request as their ref.
\* github.py 36-41: the reviewers list of the loop over the reviews
RECURSIVE ReviewerLogins(_, _)
ReviewerLogins(reviews, reviewers) ==
    IF reviews = <<>> THEN reviewers
    ELSE ReviewerLogins(Tail(reviews),
            IF GetText(Head(reviews), "login") # <<>>
               /\ GetText(Head(reviews), "login") \notin Range(reviewers)
            THEN Append(reviewers, GetText(Head(reviews), "login"))
            ELSE reviewers)

\* github.py 37-43: the submitted_at of the first review of the list that
\* has one
RECURSIVE FirstReviewedAt(_, _)
FirstReviewedAt(reviews, first_reviewed_at) ==
    IF reviews = <<>> THEN first_reviewed_at
    ELSE FirstReviewedAt(Tail(reviews),
            IF GetNum(Head(reviews), "submitted_at") \notin {None, 0}
               /\ first_reviewed_at = None
            THEN to_dt_text(GetNum(Head(reviews), "submitted_at"))
            ELSE first_reviewed_at)

\* f"{owner}/{name}#{number}"
PrId(payload) ==
    payload.repo.owner \o <<"/">> \o payload.repo.name \o <<"#">> \o StrOfInt(payload.pr.number)

\* github.py 18-29: the record is a pull request with owner, name and number
IsPr(rp) ==
    /\ rp.source = GITHUB /\ rp.object_type = "pr"
    /\ Has(rp.payload, "repo") /\ Has(rp.payload, "pr")
    /\ GetText(rp.payload.repo, "owner") # <<>>
    /\ GetText(rp.payload.repo, "name") # <<>>
    /\ GetNum(rp.payload.pr, "number") \notin {None, 0}

\* the text searched for issue keys: title, body, head ref and base ref
\* joined by blanks
LinkText(pr) ==
    GetText(pr, "title") \o <<" ">> \o GetText(pr, "body") \o <<" ">>
    \o GetText(pr, "head") \o <<" ">> \o GetText(pr, "base")

\* the defaults of PR.objects.update_or_create(pr_id=...)
PrDefaults(payload) ==
    [pr_id |-> PrId(payload),
     title |-> GetText(payload.pr, "title"),
     opened_at |-> to_dt_text(GetNum(payload.pr, "created_at")),
     first_reviewed_at |-> FirstReviewedAt(GetList(payload, "reviews"), None),
     merged_at |-> to_dt_text(GetNum(payload.pr, "merged_at")),
     reviewer_ids |-> ReviewerLogins(GetList(payload, "reviews"), <<>>)]

\* the Jira items the PR text names that exist
Linked(store, payload) ==
    {key \in extract_issue_keys_from_text(LinkText(payload.pr)) : Exists(store, JIRA, key)}

\* github.py 70-83: add_linked_pr on every item found
RECURSIVE LinkAll(_, _, _)
LinkAll(store, keys, d) ==
    IF keys = {} THEN store
    ELSE LinkAll(add_linked_pr(store, CHOOSE k \in keys : TRUE, d, d.reviewer_ids),
                 keys \ {CHOOSE k \in keys : TRUE}, d)

\* PR.objects.update_or_create: the defaults replace the columns they name,
\* work_item is none of them
UpsertPr(prs, d) ==
    (d.pr_id :> (d @@ [work_item |-> IF d.pr_id \in DOMAIN prs
                                     THEN prs[d.pr_id].work_item ELSE NoItem])) @@ prs

\* github.py 45-86 for the row values d and the items found
LinkOutcomes(store, prs, d, keys) ==
    {[store |-> LinkAll(store, keys, d),
      prs |-> [UpsertPr(prs, d) EXCEPT ![d.pr_id].work_item = IF wi = NoItem THEN @ ELSE wi],
      count |-> 1] : wi \in IF keys = {} THEN {NoItem} ELSE keys}

\* one record of the batch: the outcomes [store, prs, count]; pr_row.work_item
\* ends as the item of the last key of a set, whose order is not defined
GitHubNormalizeOne(store, prs, rp) ==
    IF ~IsPr(rp) THEN {[store |-> store, prs |-> prs, count |-> 0]}
    ELSE UNION {LinkOutcomes(store, prs, d, Linked(store, rp.payload)) :
                   d \in {PrDefaults(rp.payload)}}

\* GitHubPRNormalizer.normalize(raw_items)
RECURSIVE GitHubNormalize(_, _, _, _)
GitHubNormalize(store, prs, raw_items, count) ==
    IF raw_items = <<>> THEN {[store |-> store, prs |-> prs, count |-> count]}
    ELSE UNION {GitHubNormalize(one.store, one.prs, Tail(raw_items), count + one.count) :
                   one \in GitHubNormalizeOne(store, prs, Head(raw_items))}

(***************************************************************************)
(* Specification SpecGithub: Jira normalization runs and GitHub            *)
(* normalization runs executed one at a time.                              *)
(***************************************************************************)
RawPr(payload) == [source |-> GITHUB, object_type |-> "pr", payload |-> payload]

Repo == [owner |-> <<"o">>, name |-> <<"r">>]

\* pull request o/r#9 for PA-1 as fetched when opened, when reviewed (the
\* API lists amy's later review before bob's earlier one, and a pending
\* review without submitted_at) and when merged
Pr9Opened ==
    RawPr([repo |-> Repo,
           pr |-> [number |-> 9, title |-> <<"P", "A", "-", "1", " ", "l", "o", "g", "i", "n">>, created_at |-> 9 * Day]])
Pr9Reviewed ==
    RawPr([repo |-> Repo,
           pr |-> [number |-> 9, title |-> <<"P", "A", "-", "1", " ", "l", "o", "g", "i", "n">>, created_at |-> 9 * Day],
           reviews |-> <<[login |-> <<"c", "y">>],
                         [login |-> <<"a", "m", "y">>, submitted_at |-> 9 * Day + 7200],
                         [login |-> <<"b", "o", "b">>, submitted_at |-> 9 * Day + 3600],
                         [login |-> <<"a", "m", "y">>, submitted_at |-> 9 * Day + 9000]>>])
Pr9Merged ==
    RawPr([repo |-> Repo,
           pr |-> [number |-> 9, title |-> <<"P", "A", "-", "1", " ", "l", "o", "g", "i", "n">>, created_at |-> 9 * Day,
                   merged_at |-> 10 * Day],
           reviews |-> <<[login |-> <<"b", "o", "b">>, submitted_at |-> 9 * Day + 3600],
                         [login |-> <<"a", "m", "y">>, submitted_at |-> 9 * Day + 7200]>>])

\* pull request o/r#10 naming PA-1 in its title and PA-2 in its branch; a
\* pull request naming no issue (x-1 and A-1 are no keys); a record
\* without a number; a record that is no pull request
Pr10 ==
    RawPr([repo |-> Repo,
           pr |-> [number |-> 10, title |-> <<"f", "i", "x", " ", "P", "A", "-", "1", " ", "a", "g", "a", "i", "n">>, body |-> <<"s", "e", "e", " ", "P", "A", "-", "1">>,
                   head |-> <<"f", "e", "a", "t", "u", "r", "e", "/", "P", "A", "-", "2", "-", "r", "e", "t", "r", "y">>, base |-> <<"m", "a", "i", "n">>,
                   created_at |-> 9 * Day],
           reviews |-> <<[login |-> <<"a", "m", "y">>, submitted_at |-> 9 * Day + 1800]>>])
Pr11 ==
    RawPr([repo |-> Repo,
           pr |-> [number |-> 11, title |-> <<"x", "-", "1", " ", "A", "-", "1", " ", "P", "A", "-", " ", "c", "l", "e", "a", "n", "u", "p">>, created_at |-> 9 * Day]])
PrNoNumber == RawPr([repo |-> Repo, pr |-> [title |-> <<"P", "A", "-", "1">>]])
Commit == [source |-> GITHUB, object_type |-> "commit", payload |-> [repo |-> Repo]]

GithubBatches ==
    {<<Pr9Opened>>, <<Pr9Reviewed>>, <<Pr9Merged>>, <<Pr10>>, <<Pr11>>,
     <<PrNoNumber, Commit>>, <<Pr9Opened, Pr9Merged>>, <<Pr10, Pr9Reviewed>>}

NoPrs == <<>>        \* the empty PR table

InitGithub ==
    /\ now = StartTime
    /\ tickets = <<>>
    /\ workitems = <<>>
    /\ config = JiraConfig
    /\ proc = NoPrs
    /\ hist = NoOp

\* GitHubPRNormalizer.normalize(raw_items); hist keeps the batch, the
\* returned count and the tables before the run
NormalizeGithub(raw_items) ==
    \E out \in GitHubNormalize(workitems, proc, raw_items, 0) :
        /\ workitems' = out.store
        /\ proc' = out.prs
        /\ hist' = [op |-> "github", raw_items |-> raw_items, count |-> out.count,
                    before |-> workitems, prs_before |-> proc]
        /\ UNCHANGED <<now, tickets, config>>

NextGithub ==
    \/ \E r \in {<<1, <<Jira1>>>>, <<1, <<Jira5>>>>, <<1, <<Jira2>>>>} : SyncJira(r[1], r[2])
    \/ \E raw_items \in GithubBatches : NormalizeGithub(raw_items)

SpecGithub == InitGithub /\ [][NextGithub]_vars

\* the record of the batch that is the last one of its pull request
LatestOf(raw_items, i) ==
    /\ IsPr(raw_items[i])
    /\ \A j \in DOMAIN raw_items :
          j > i /\ IsPr(raw_items[j]) => PrId(raw_items[j].payload) # PrId(raw_items[i].payload)

\* the linked_prs entries of item sid for pull request pid
EntriesOf(sid, pid) ==
    {i \in DOMAIN workitems[sid].linked_prs : workitems[sid].linked_prs[i].pr_id = pid}

\* C35: however often a pull request is processed, a WorkItem's linked_prs
\* holds at most one entry per pr_id.
C35_OneEntryPerPr ==
    \A sid \in DOMAIN workitems :
        \A i, j \in DOMAIN workitems[sid].linked_prs :
            workitems[sid].linked_prs[i].pr_id = workitems[sid].linked_prs[j].pr_id => i = j

\* a pull request that was linked to PA-1 before was processed again, and
\* PA-1 holds one entry for it next to the entry of another pull request
C35_Witness ==
    /\ hist.op = "github"
    /\ \E i \in DOMAIN hist.raw_items :
          /\ IsPr(hist.raw_items[i])
          /\ PA1 \in DOMAIN hist.before
          /\ \E k \in DOMAIN hist.before[PA1].linked_prs :
                hist.before[PA1].linked_prs[k].pr_id = PrId(hist.raw_items[i].payload)
          /\ Cardinality(EntriesOf(PA1, PrId(hist.raw_items[i].payload))) = 1
    /\ Len(workitems[PA1].linked_prs) = 2

\* C36: after a run, every existing Jira item named by the latest record
\* of a pull request holds an entry for that pull request whose opened_at,
\* first_reviewed_at, merged_at and reviewers are those of the latest
\* record, as stored on the PR row.
C36_EntryFollowsLatestRecord ==
    hist.op = "github" =>
        \A i \in DOMAIN hist.raw_items :
            LatestOf(hist.raw_items, i) =>
                \A sid \in Linked(workitems, hist.raw_items[i].payload) :
                    \E k \in EntriesOf(sid, PrId(hist.raw_items[i].payload)) :
                        /\ workitems[sid].linked_prs[k].opened_at
                             = proc[PrId(hist.raw_items[i].payload)].opened_at
                        /\ workitems[sid].linked_prs[k].first_reviewed_at
                             = proc[PrId(hist.raw_items[i].payload)].first_reviewed_at
                        /\ workitems[sid].linked_prs[k].merged_at
                             = proc[PrId(hist.raw_items[i].payload)].merged_at
                        /\ workitems[sid].linked_prs[k].reviewers
                             = proc[PrId(hist.raw_items[i].payload)].reviewer_ids

\* the submitted_at values of a reviews list
SubmittedTimes(reviews) ==
    {GetNum(reviews[i], "submitted_at") : i \in DOMAIN reviews} \ {None, 0}

\* the position of the first review by login
FirstBy(reviews, login) ==
    Min({i \in DOMAIN reviews : GetText(reviews[i], "login") = login})

\* ids holds every login of the reviews once, in first-occurrence order
OrderedUnique(ids, reviews) ==
    /\ Range(ids) = {GetText(reviews[i], "login") : i \in DOMAIN reviews} \ {<<>>}
    /\ \A a, b \in DOMAIN ids :
          a < b => FirstBy(reviews, ids[a]) < FirstBy(reviews, ids[b])

\* C37: after a run, the PR row of the latest record of a pull request has
\* the earliest submitted_at of the record's reviews as first_reviewed_at
\* (None without one) and the reviewers' logins in first-occurrence order
\* without repeats as reviewer_ids.
C37_FirstReviewIsEarliest ==
    hist.op = "github" =>
        \A i \in DOMAIN hist.raw_items :
            LatestOf(hist.raw_items, i) =>
                /\ proc[PrId(hist.raw_items[i].payload)].first_reviewed_at
                     = earliest(SubmittedTimes(GetList(hist.raw_items[i].payload, "reviews")))
                /\ OrderedUnique(proc[PrId(hist.raw_items[i].payload)].reviewer_ids,
                                 GetList(hist.raw_items[i].payload, "reviews"))

(***************************************************************************)
(* Specification SpecWindow: etl_fetch_raw and etl_normalize of            *)
(* etl/tasks.py executed one at a time.  proc is the RawPayload table      *)
(* (sequence of rows in insertion order), config the ETLJobRun table; the  *)
(* mapping configuration the normalizer reads is JiraConfig.               *)
(***************************************************************************)
\* the issues of board 1 a fetch returns
FetchedItems == {<<Jira1>>, <<Jira2>>, <<Jira4>>, <<Jira6, Jira1>>}

\* tasks.py 19-30: one RawPayload row per item; fetched_at is auto_now_add
RECURSIVE bulk_create(_, _, _, _)
bulk_create(raws, items, board, t) ==
    IF items = <<>> THEN raws
    ELSE bulk_create(Append(raws, [source |-> Head(items).source, board |-> board,
                                   object_type |-> Head(items).object_type,
                                   external_id |-> JiraKey(Head(items).payload),
                                   payload |-> Head(items).payload,
                                   fetched_at |-> t]),
                     Tail(items), board, t)

\* increment(run, records_pulled=delta)
increment_pulled(runs, pk, delta) ==
    [runs EXCEPT ![pk].records_pulled = @ + delta]

\* RawPayload.objects.filter(board=board).order_by("-fetched_at")[:5000]:
\* the rows of the board, latest fetch first; rows of one fetched_at come
\* in an order the database chooses
recent_raw(raws, board) ==
    {[i \in DOMAIN o |-> raws[o[i]]] :
        o \in {p \in Orders({i \in DOMAIN raws : raws[i].board = board}) :
                 \A a, b \in DOMAIN p :
                     a < b => raws[p[a]].fetched_at >= raws[p[b]].fetched_at}}

InitWindow ==
    /\ now = StartTime
    /\ tickets = <<>>
    /\ workitems = <<>>
    /\ config = <<>>
    /\ proc = <<>>
    /\ hist = NoOp

\* etl_fetch_raw(board_id) for the items the connector returns
EtlFetchRaw(board, items) ==
    /\ Len(config) < MaxRuns
    /\ \E e \in {etl_run_enter(config, "fetch_raw", board, now)} :
          config' = etl_run_exit(increment_pulled(e.runs, e.run, Len(items)),
                                 e.run, "", now).runs
    /\ proc' = bulk_create(proc, items, board, now)
    /\ hist' = [op |-> "fetch_raw", board |-> board]
    /\ UNCHANGED <<now, tickets, workitems>>

\* etl_normalize(board_id); hist keeps the window in the order it was read
EtlNormalize(board) ==
    /\ Len(config) < MaxRuns
    /\ \E raw_items \in recent_raw(proc, board) :
       \E e \in {etl_run_enter(config, "normalize", board, now)} :
       \E res \in {normalize(JIRA, workitems, raw_items, board, now)} :
          /\ workitems' = res.store
          /\ config' = etl_run_exit(IF res.err THEN e.runs
                                    ELSE increment(e.runs, e.run, res.count),
                                    e.run, IF res.err THEN "IntegrityError" ELSE "",
                                    now).runs
          /\ hist' = [op |-> "etl_normalize", board |-> board, raw_items |-> raw_items,
                      err |-> res.err, count |-> res.count]
    /\ UNCHANGED <<now, tickets, proc>>

NextWindow ==
    \/ TickN
    \/ \E items \in FetchedItems : EtlFetchRaw(1, items)
    \/ EtlNormalize(1)

SpecWindow == InitWindow /\ [][NextWindow]_vars

\* the rows of the window for external id key
RecordsOf(raw_items, key) ==
    {i \in DOMAIN raw_items :
        raw_items[i].object_type = "issue" /\ raw_items[i].external_id = key}

\* row i is the most recently fetched one of its external id
MostRecent(raw_items, i) ==
    \A j \in RecordsOf(raw_items, raw_items[i].external_id) :
        j # i => raw_items[j].fetched_at < raw_items[i].fetched_at

\* C38: after etl_normalize(board) has completed, for every external id
\* with several RawPayload records in the board's window the WorkItem's
\* fields (status and blocked_flag among them) are the ones derived from
\* the most recently fetched of these records.
C38_LatestRecordWins ==
    hist.op = "etl_normalize" /\ ~hist.err =>
        \A i \in DOMAIN hist.raw_items :
            /\ hist.raw_items[i].object_type = "issue"
            /\ Cardinality(RecordsOf(hist.raw_items, hist.raw_items[i].external_id)) > 1
            /\ MostRecent(hist.raw_items, i)
            => \A f \in DOMAIN JiraDefaults(hist.raw_items[i].payload, hist.board, JiraConfig) :
                  workitems[hist.raw_items[i].external_id][f]
                    = JiraDefaults(hist.raw_items[i].payload, hist.board, JiraConfig)[f]
=============================================================================
